---------------------------- MODULE Spec2Model ----------------------------
(***************************************************************************)
(* A model of the montecarlo_ir package: the yield curve and its builders  *)
(* (market_data/yield_curve.py) over the date helpers                      *)
(* (utils/date_helpers.py).                                                *)
(*                                                                         *)
(* Numbers.  The program computes in binary floating point.  The model     *)
(* computes in decimal fixed point with six fractional digits: the integer *)
(* n stands for the number n / One.  Every product and quotient is rounded *)
(* to the nearest unit, as a float operation is rounded to the nearest     *)
(* float; exp, log and pow are computed by series to the same resolution.  *)
(* A statement of the program that holds "within floating tolerance"       *)
(* therefore holds in the model within a few units, and a statement that   *)
(* holds exactly because no arithmetic takes place (a stored value handed  *)
(* back, a literal 1.0) holds exactly.                                     *)
(*                                                                         *)
(* Dates are records [y, m, d] of the proleptic Gregorian calendar, as     *)
(* datetime.date.                                                          *)
(***************************************************************************)
EXTENDS Integers, Sequences, FiniteSets

---------------------------------------------------------------------------
(* Assignment                                                              *)

\* "x = e" followed by the statements F(x): e is evaluated once, and F is
\* applied to its value
Bind(e, F(_)) == CHOOSE result \in {F(x) : x \in {e}} : TRUE

---------------------------------------------------------------------------
(* Fixed-point arithmetic                                                  *)

\* 1.0
One == 1000 * 1000

Abs(a) == IF a < 0 THEN -a ELSE a

Sgn(a) == IF a < 0 THEN -1 ELSE IF a > 0 THEN 1 ELSE 0

\* a * b, rounded to the nearest unit.  The operands are split in base 1000
\* so that no intermediate product leaves the 32-bit range (|a|, |b| < 1000.0).
Mul(a, b) ==
    LET x  == Abs(a)
        y  == Abs(b)
        x1 == x \div 1000
        x0 == x % 1000
        y1 == y \div 1000
        y0 == y % 1000
        mid == x1 * y0 + x0 * y1
        low == x0 * y0 + 500000
    IN  Sgn(a) * Sgn(b) * (x1 * y1 + ((mid + (low \div 1000)) \div 1000))

\* The first k decimal digits of r / d (0 <= r < d) and the remainder left.
RECURSIVE DivDigits(_, _, _)
DivDigits(r, d, k) ==
    IF k = 0 THEN <<0, r>>
    ELSE LET p == DivDigits(r, d, k - 1)
         IN  <<p[1] * 10 + ((p[2] * 10) \div d), (p[2] * 10) % d>>

\* n / d as a fixed-point number, rounded to the nearest unit, for integers
\* n and d # 0 (so a / b for two fixed-point numbers as well).
Ratio(n, d) ==
    LET x  == Abs(n)
        y  == Abs(d)
        p  == DivDigits(x % y, y, 6)
        up == IF 2 * p[2] >= y THEN 1 ELSE 0
    IN  Sgn(n) * Sgn(d) * ((x \div y) * One + p[1] + up)

\* sum over j >= k of x^j / j!, given term = x^k / k!  (x >= 0)
RECURSIVE ExpTerms(_, _, _)
ExpTerms(x, k, term) ==
    IF term = 0 THEN 0
    ELSE term + ExpTerms(x, k + 1, Ratio(Mul(term, x), (k + 1) * One))

\* math.exp
Exp(x) == IF x >= 0 THEN ExpTerms(x, 0, One)
          ELSE Ratio(One, ExpTerms(-x, 0, One))

\* sum over odd j >= k of u^j / j, given pow = u^k
RECURSIVE AtanhTerms(_, _, _)
AtanhTerms(u2, k, pow) ==
    IF pow = 0 THEN 0
    ELSE Ratio(pow, k * One) + AtanhTerms(u2, k + 2, Mul(pow, u2))

\* math.log for x > 0:  log x = 2 atanh((x - 1) / (x + 1)) on [1/2, 2],
\* and log x = log(x / 2) + log 2, log x = log(2 x) - log 2 outside it.
RECURSIVE Ln(_)
Ln(x) ==
    IF x > 2 * One THEN Ln(Ratio(x, 2 * One)) + 693147
    ELSE IF 2 * x < One THEN Ln(2 * x) - 693147
    ELSE LET u == Ratio(x - One, x + One)
         IN  2 * AtanhTerms(Mul(u, u), 1, u)

\* x ** y for a float base x > 0
Pow(x, y) == Exp(Mul(y, Ln(x)))

---------------------------------------------------------------------------
(* datetime.date                                                           *)

Date(y, m, d) == [y |-> y, m |-> m, d |-> d]

IsLeap(y) == y % 4 = 0 /\ (y % 100 # 0 \/ y % 400 = 0)

\* _days_in_month
DaysInMonth(y, m) ==
    IF m = 2 THEN (IF IsLeap(y) THEN 29 ELSE 28)
    ELSE IF m \in {4, 6, 9, 11} THEN 30
    ELSE 31

RECURSIVE DaysBeforeMonth(_, _)
DaysBeforeMonth(y, m) ==
    IF m = 1 THEN 0 ELSE DaysBeforeMonth(y, m - 1) + DaysInMonth(y, m - 1)

\* date.toordinal
ToOrdinal(dt) ==
    LET y1 == dt.y - 1
    IN  y1 * 365 + (y1 \div 4) - (y1 \div 100) + (y1 \div 400)
        + DaysBeforeMonth(dt.y, dt.m) + dt.d

DateLT(a, b) == ToOrdinal(a) < ToOrdinal(b)

DateLE(a, b) == ToOrdinal(a) <= ToOrdinal(b)

\* (b - a).days
DaysDiff(a, b) == ToOrdinal(b) - ToOrdinal(a)

---------------------------------------------------------------------------
(* utils/date_helpers.py                                                   *)

\* DayCountConvention
DayCountConvention == {"ACT/360", "ACT/365", "ACT/ACT", "ACT/365.25", "30/360"}

\* days_between, ACT/ACT branch
ActAct(s, e) ==
    LET days_in_year == DaysDiff(Date(s.y, 1, 1), Date(s.y + 1, 1, 1))
    IN  IF s.y = e.y THEN Ratio(DaysDiff(s, e), days_in_year)
        ELSE Ratio(DaysDiff(s, Date(s.y + 1, 1, 1)), days_in_year)
             + (e.y - s.y - 1) * One
             + Ratio(DaysDiff(Date(e.y, 1, 1), e),
                     DaysDiff(Date(e.y, 1, 1), Date(e.y + 1, 1, 1)))

\* days_between, 30/360 branch
Thirty360(s, e) ==
    LET d1 == IF s.d = 31 THEN 30 ELSE s.d
        d2 == IF e.d = 31 /\ d1 = 30 THEN 30 ELSE e.d
    IN  Ratio(360 * (e.y - s.y) + 30 * (e.m - s.m) + (d2 - d1), 360)

\* days_between for end_date >= start_date (it raises ValueError otherwise:
\* DaysBetweenRaises)
DaysBetween(s, e, convention) ==
    CASE convention = "ACT/360"    -> Ratio(DaysDiff(s, e), 360)
      [] convention = "ACT/365"    -> Ratio(DaysDiff(s, e), 365)
      [] convention = "ACT/365.25" -> Ratio(DaysDiff(s, e) * 100, 36525)
      [] convention = "ACT/ACT"    -> ActAct(s, e)
      [] convention = "30/360"     -> Thirty360(s, e)

DaysBetweenRaises(s, e) == DateLT(e, s)

\* year_fraction with a DayCountConvention
YearFraction(s, e, convention) == DaysBetween(s, e, convention)

\* add_months
AddMonths(dt, months) ==
    LET month0 == dt.m - 1 + months
        year   == dt.y + (month0 \div 12)
        month  == (month0 % 12) + 1
        dim    == DaysInMonth(year, month)
    IN  Date(year, month, IF dt.d < dim THEN dt.d ELSE dim)

\* add_years
AddYears(dt, years) ==
    IF dt.d <= DaysInMonth(dt.y + years, dt.m)
    THEN Date(dt.y + years, dt.m, dt.d)
    ELSE Date(dt.y + years, dt.m, dt.d - 1)

\* A frequency string "<n><unit>" parsed: int(frequency[:-1]), frequency[-1].upper()
Frequency(n, unit) == [n |-> n, unit |-> unit]

\* generate_schedule, the loop "while current_date < end_date"
\* (business_day_rule = NONE: adjust_business_day returns its argument)
RECURSIVE ScheduleLoop(_, _, _, _)
ScheduleLoop(current_date, end_date, frequency, schedule) ==
    IF ~DateLT(current_date, end_date) THEN schedule
    ELSE LET nxt == IF frequency.unit = "M"
                    THEN AddMonths(current_date, frequency.n)
                    ELSE AddYears(current_date, frequency.n)
         IN  ScheduleLoop(nxt, end_date, frequency,
                          IF DateLE(nxt, end_date) THEN Append(schedule, nxt)
                          ELSE schedule)

\* generate_schedule raises ValueError: end before start, or a unit other
\* than M and Y met in the loop
GenerateScheduleRaises(start_date, end_date, frequency) ==
    \/ DateLT(end_date, start_date)
    \/ DateLT(start_date, end_date) /\ frequency.unit \notin {"M", "Y"}

\* generate_schedule(start_date, end_date, frequency, BusinessDayRule.NONE)
GenerateSchedule(start_date, end_date, frequency) ==
    LET schedule == ScheduleLoop(start_date, end_date, frequency, <<start_date>>)
    IN  IF schedule[Len(schedule)] # end_date
        THEN Append(schedule, end_date)
        ELSE schedule

---------------------------------------------------------------------------
(* market_data/yield_curve.py                                              *)

\* The outcome of a call: a returned value, or a raised error.
Return(v) == [ok |-> TRUE, v |-> v, err |-> ""]

Raise(e) == [ok |-> FALSE, v |-> 0, err |-> e]

InterpolationMethod == {"linear_zero", "log_linear_df"}

CompoundingMethod == {"cont", "simple", "annual"}

\* _validate_strictly_increasing: TRUE when it returns, FALSE when it raises
StrictlyIncreasing(values) ==
    \A i \in 2..Len(values) : values[i] > values[i - 1]

\* _linear_interpolate
LinearInterpolate(x0, y0, x1, y1, x) ==
    IF x1 = x0 THEN y0
    ELSE LET w == Ratio(x - x0, x1 - x0)
         IN  Mul(One - w, y0) + Mul(w, y1)

\* zip(a, b)
Zip(a, b) ==
    [i \in 1..(IF Len(a) < Len(b) THEN Len(a) ELSE Len(b)) |-> <<a[i], b[i]>>]

\* p placed into the sorted sequence s after every entry whose date is not
\* later than p's (sorted is stable)
RECURSIVE InsertPair(_, _)
InsertPair(s, p) ==
    IF s = <<>> THEN <<p>>
    ELSE IF DateLT(p[1], s[Len(s)][1])
         THEN Append(InsertPair(SubSeq(s, 1, Len(s) - 1), p), s[Len(s)])
         ELSE Append(s, p)

\* A slip in sorted(zip(...)): the dates sorted on their own, the second
\* components left in the order given
SortPairsDatesOnly(pairs) ==
    LET RECURSIVE Sorted(_)
        Sorted(q) ==
            IF q = <<>> THEN <<>>
            ELSE InsertPair(Sorted(SubSeq(q, 1, Len(q) - 1)), q[Len(q)])
        sorted == Sorted(pairs)
    IN  [i \in 1..Len(pairs) |-> <<sorted[i][1], pairs[i][2]>>]

\* sorted(pairs, key=lambda x: x[0])
RECURSIVE SortPairs(_)
SortPairs(pairs) ==
    IF pairs = <<>> THEN <<>>
    ELSE InsertPair(SortPairs(SubSeq(pairs, 1, Len(pairs) - 1)), pairs[Len(pairs)])

\* YieldCurve(...): the dataclass fields as __post_init__ leaves them, or
\* the ValueError it raises
YieldCurve(valuation_date, pillar_dates, pillar_zero_rates, day_count, interpolation, compounding) ==
    IF Len(pillar_dates) # Len(pillar_zero_rates)
    THEN Raise("same length")
    ELSE IF Len(pillar_dates) = 0
    THEN Raise("at least one pillar")
    ELSE IF \E i \in 1..Len(pillar_dates) : DateLT(pillar_dates[i], valuation_date)
    THEN Raise("on or after valuation_date")
    ELSE
      LET sorted_pairs == SortPairs(Zip(pillar_dates, pillar_zero_rates))
          dates_sorted == [i \in 1..Len(sorted_pairs) |-> sorted_pairs[i][1]]
          times == [i \in 1..Len(sorted_pairs) |->
                       YearFraction(valuation_date, dates_sorted[i], day_count)]
      IN  IF ~StrictlyIncreasing([i \in 1..Len(dates_sorted) |->
                                     ToOrdinal(dates_sorted[i])])
          THEN Raise("strictly increasing")
          ELSE IF ~StrictlyIncreasing(times)
          THEN Raise("strictly increasing")
          ELSE Return([valuation_date    |-> valuation_date,
                       pillar_dates      |-> dates_sorted,
                       pillar_zero_rates |-> [i \in 1..Len(sorted_pairs) |->
                                                 sorted_pairs[i][2]],
                       day_count         |-> day_count,
                       interpolation     |-> interpolation,
                       compounding       |-> compounding,
                       pillar_times      |-> times])

\* YieldCurve._time_from_valuation
TimeFromValuation(self, d) ==
    YearFraction(self.valuation_date, d, self.day_count)

\* YieldCurve._df_from_rate
DfFromRate(self, r, t) ==
    CASE self.compounding = "cont"   -> Exp(-Mul(r, t))
      [] self.compounding = "annual" -> Ratio(One, Pow(One + r, t))
      [] self.compounding = "simple" -> Ratio(One, One + Mul(r, t))

\* A slip in _rate_from_df: the annual branch raises to +1/t
RateFromDfPositiveExponent(self, df, t) ==
    IF t = 0 THEN self.pillar_zero_rates[1]
    ELSE CASE self.compounding = "cont"   -> Ratio(-Ln(df), t)
           [] self.compounding = "annual" -> Pow(df, Ratio(One, t)) - One
           [] self.compounding = "simple" -> Ratio(Ratio(One, df) - One, t)

\* YieldCurve._rate_from_df
RateFromDf(self, df, t) ==
    IF t = 0 THEN self.pillar_zero_rates[1]
    ELSE CASE self.compounding = "cont"   -> Ratio(-Ln(df), t)
           [] self.compounding = "annual" -> Pow(df, Ratio(-One, t)) - One
           [] self.compounding = "simple" -> Ratio(Ratio(One, df) - One, t)

\* bisect.bisect_right(times, t), as a 0-based insertion point
BisectRight(times, t) == Cardinality({i \in 1..Len(times) : times[i] <= t})

\* A slip in _zero_rate_at_time: the rate above the last pillar continued
\* along the line through the last two pillars instead of held flat
ZeroRateAtTimeLinearAbove(self, t) ==
    LET times == self.pillar_times
        zeros == self.pillar_zero_rates
        n     == Len(times)
    IN  IF t <= times[1] THEN zeros[1]
        ELSE IF n >= 2 /\ t > times[n]
        THEN LinearInterpolate(times[n - 1], zeros[n - 1], times[n], zeros[n], t)
        ELSE IF t >= times[n] THEN zeros[n]
        ELSE
          LET idx == BisectRight(times, t)
              t0  == times[idx]
              t1  == times[idx + 1]
              z0  == zeros[idx]
              z1  == zeros[idx + 1]
          IN  IF self.interpolation = "linear_zero"
              THEN LinearInterpolate(t0, z0, t1, z1, t)
              ELSE LET log_df0  == Ln(DfFromRate(self, z0, t0))
                       log_df1  == Ln(DfFromRate(self, z1, t1))
                       log_df_t == LinearInterpolate(t0, log_df0, t1, log_df1, t)
                   IN  RateFromDf(self, Exp(log_df_t), t)

\* A slip in _zero_rate_at_time: the interpolation mode ignored, the zero
\* rates interpolated linearly under log_linear_df too
ZeroRateAtTimeAlwaysLinear(self, t) ==
    LET times == self.pillar_times
        zeros == self.pillar_zero_rates
        n     == Len(times)
    IN  IF t <= times[1] THEN zeros[1]
        ELSE IF t >= times[n] THEN zeros[n]
        ELSE LET idx == BisectRight(times, t)
             IN  LinearInterpolate(times[idx], zeros[idx],
                                   times[idx + 1], zeros[idx + 1], t)

\* YieldCurve._zero_rate_at_time
ZeroRateAtTime(self, t) ==
    LET times == self.pillar_times
        zeros == self.pillar_zero_rates
        n     == Len(times)
    IN  IF t <= times[1] THEN zeros[1]
        ELSE IF t >= times[n] THEN zeros[n]
        ELSE
          LET idx == BisectRight(times, t)
              t0  == times[idx]
              t1  == times[idx + 1]
              z0  == zeros[idx]
              z1  == zeros[idx + 1]
          IN  IF self.interpolation = "linear_zero"
              THEN LinearInterpolate(t0, z0, t1, z1, t)
              ELSE LET log_df0  == Ln(DfFromRate(self, z0, t0))
                       log_df1  == Ln(DfFromRate(self, z1, t1))
                       log_df_t == LinearInterpolate(t0, log_df0, t1, log_df1, t)
                   IN  RateFromDf(self, Exp(log_df_t), t)

\* A slip in discount_factor: the guard written "<=", the valuation date
\* itself refused
DiscountFactorStrictGuard(self, target_date) ==
    IF DateLE(target_date, self.valuation_date)
    THEN Raise("target_date before valuation_date")
    ELSE LET t == TimeFromValuation(self, target_date)
         IN  IF t = 0 THEN Return(One)
             ELSE Return(DfFromRate(self, ZeroRateAtTime(self, t), t))

\* YieldCurve.discount_factor
DiscountFactor(self, target_date) ==
    IF DateLT(target_date, self.valuation_date)
    THEN Raise("target_date before valuation_date")
    ELSE LET t == TimeFromValuation(self, target_date)
         IN  IF t = 0 THEN Return(One)
             ELSE Return(DfFromRate(self, ZeroRateAtTime(self, t), t))

\* A slip in zero_rate: the zero-maturity rate taken from the last pillar
ZeroRateLastPillar(self, target_date) ==
    IF DateLT(target_date, self.valuation_date)
    THEN Raise("target_date before valuation_date")
    ELSE LET t == TimeFromValuation(self, target_date)
         IN  IF t = 0
             THEN Return(self.pillar_zero_rates[Len(self.pillar_zero_rates)])
             ELSE Return(ZeroRateAtTime(self, t))

\* YieldCurve.zero_rate
ZeroRate(self, target_date) ==
    IF DateLT(target_date, self.valuation_date)
    THEN Raise("target_date before valuation_date")
    ELSE LET t == TimeFromValuation(self, target_date)
         IN  IF t = 0 THEN Return(self.pillar_zero_rates[1])
             ELSE Return(ZeroRateAtTime(self, t))

\* forward_rate, for the outcomes df_start and df_end of its two
\* discount_factor calls and the year-fraction tau between its dates
ForwardRateOf(df_start, df_end, tau) ==
    IF ~df_start.ok THEN df_start
    ELSE IF tau = 0 THEN Raise("float division by zero")
    ELSE Return(Ratio(Ratio(df_start.v, df_end.v) - One, tau))

\* YieldCurve.forward_rate
ForwardRate(self, start_date, end_date) ==
    IF DateLE(end_date, start_date)
    THEN Raise("end_date must be after start_date")
    ELSE ForwardRateOf(DiscountFactor(self, start_date),
                       DiscountFactor(self, end_date),
                       YearFraction(start_date, end_date, self.day_count))

\* The slack of the upper bound "df >= 1.0 + 1e-12" of
\* build_yield_curve_from_discount_factors.  A double has values strictly
\* between 1.0 and 1.0 + 1e-12; the fixed-point grid keeps that true with a
\* slack of two units, the value One + 1 lying strictly inside.
DfTol == 2

\* A slip in build_yield_curve_from_discount_factors: the pillar time taken
\* under year_fraction's default convention, day_count not passed on
ZeroFromDfDefaultDayCount(valuation_date, d, df, day_count, compounding) ==
    IF DaysBetweenRaises(valuation_date, d)
    THEN Raise("end_date must be >= start_date")
    ELSE LET t == YearFraction(valuation_date, d, "ACT/360")
         IN  IF t <= 0
             THEN Raise("pillar dates must be after valuation_date")
             ELSE IF df <= 0 \/ df >= One + DfTol
             THEN Raise("discount factors must be in (0, 1]")
             ELSE CASE compounding = "cont"   -> Return(Ratio(-Ln(df), t))
                    [] compounding = "annual" ->
                           Return(Pow(df, Ratio(-One, t)) - One)
                    [] compounding = "simple" ->
                           Return(Ratio(Ratio(One, df) - One, t))

\* build_yield_curve_from_discount_factors, the loop body for one
\* (pillar date, discount factor): the zero rate, or the error raised
ZeroFromDf(valuation_date, d, df, day_count, compounding) ==
    IF DaysBetweenRaises(valuation_date, d)
    THEN Raise("end_date must be >= start_date")
    ELSE LET t == YearFraction(valuation_date, d, day_count)
         IN  IF t <= 0
             THEN Raise("pillar dates must be after valuation_date")
             ELSE IF df <= 0 \/ df >= One + DfTol
             THEN Raise("discount factors must be in (0, 1]")
             ELSE CASE compounding = "cont"   -> Return(Ratio(-Ln(df), t))
                    [] compounding = "annual" ->
                           Return(Pow(df, Ratio(-One, t)) - One)
                    [] compounding = "simple" ->
                           Return(Ratio(Ratio(One, df) - One, t))

\* build_yield_curve_from_discount_factors, after the loop: the first error
\* raised in it, or the curve through the zero rates
CurveFromZeros(valuation_date, pillar_dates, zs, day_count, interpolation, compounding) ==
    IF \E i \in 1..Len(zs) : ~zs[i].ok
    THEN zs[CHOOSE i \in 1..Len(zs) : ~zs[i].ok /\ \A j \in 1..(i - 1) : zs[j].ok]
    ELSE YieldCurve(valuation_date, pillar_dates,
                    [i \in 1..Len(zs) |-> zs[i].v],
                    day_count, interpolation, compounding)

\* build_yield_curve_from_discount_factors
BuildFromDiscountFactors(valuation_date, pillar_dates, discount_factors, day_count, interpolation, compounding) ==
    IF Len(pillar_dates) # Len(discount_factors)
    THEN Raise("same length")
    ELSE Bind([i \in 1..Len(pillar_dates) |->
                  ZeroFromDf(valuation_date, pillar_dates[i],
                             discount_factors[i], day_count, compounding)],
              LAMBDA zs : CurveFromZeros(valuation_date, pillar_dates, zs,
                                         day_count, interpolation, compounding))

\* build_yield_curve_from_swaps, "for i in range(len(schedule))": the known
\* fixed-leg PV and the final period's length after periods i..len(schedule)
RECURSIVE PeriodLoop(_, _, _, _, _, _, _, _)
PeriodLoop(i, schedule, valuation_date, swap_maturity, swap_rate, temp_curve, fixed_leg_pv_known, tau_maturity) ==
    IF i > Len(schedule)
    THEN [fixed_leg_pv_known |-> fixed_leg_pv_known, tau_maturity |-> tau_maturity]
    ELSE
      LET start_date == IF i = 1 THEN valuation_date ELSE schedule[i - 1]
          end_date   == schedule[i]
          tau        == YearFraction(start_date, end_date, temp_curve.day_count)
      IN  IF end_date = swap_maturity
          THEN PeriodLoop(i + 1, schedule, valuation_date, swap_maturity,
                          swap_rate, temp_curve, fixed_leg_pv_known, tau)
          ELSE PeriodLoop(i + 1, schedule, valuation_date, swap_maturity,
                          swap_rate, temp_curve,
                          fixed_leg_pv_known
                            + Mul(Mul(DiscountFactor(temp_curve, end_date).v,
                                      swap_rate), tau),
                          tau_maturity)

\* build_yield_curve_from_swaps, the first swap: 1 / (1 + rate * t)
FirstSwapDf(t, swap_rate) ==
    IF t <= 0
    THEN Raise("swap maturities must be after valuation_date")
    ELSE IF One + Mul(swap_rate, t) = 0
    THEN Raise("float division by zero")
    ELSE Return(Ratio(One, One + Mul(swap_rate, t)))

\* build_yield_curve_from_swaps, "if df_maturity <= 0.0 or df_maturity > 1.0"
CheckedDf(df_maturity) ==
    IF df_maturity <= 0 \/ df_maturity > One
    THEN Raise("bootstrapping failed")
    ELSE Return(df_maturity)

\* build_yield_curve_from_swaps, "if tau_maturity > 0.0: ... else: ..."
SolveDfMaturity(fixed_leg_pv_known, swap_rate, tau_maturity) ==
    IF tau_maturity > 0 /\ One + Mul(swap_rate, tau_maturity) = 0
    THEN Raise("float division by zero")
    ELSE IF tau_maturity > 0
    THEN Bind(Ratio(One - fixed_leg_pv_known, One + Mul(swap_rate, tau_maturity)),
              LAMBDA df_maturity : CheckedDf(df_maturity))
    ELSE CheckedDf(One)

\* build_yield_curve_from_swaps, a swap after the first, its schedule and
\* the temporary curve given
LaterSwapDf(valuation_date, swap_maturity, swap_rate, schedule, temp_curve) ==
    Bind(PeriodLoop(1, schedule, valuation_date, swap_maturity, swap_rate,
                    temp_curve, 0, 0),
         LAMBDA pv :
           IF schedule[Len(schedule)] # swap_maturity
           THEN Bind(YearFraction(schedule[Len(schedule)], swap_maturity,
                                  temp_curve.day_count),
                     LAMBDA tau_maturity :
                       SolveDfMaturity(pv.fixed_leg_pv_known, swap_rate,
                                       tau_maturity))
           ELSE SolveDfMaturity(pv.fixed_leg_pv_known, swap_rate,
                                pv.tau_maturity))

\* build_yield_curve_from_swaps, the body of "for swap_maturity, swap_rate"
\* after the schedule is generated: the discount factor appended for this
\* swap, or the error raised
ScheduledSwapDf(valuation_date, swap_maturity, swap_rate, schedule, pillar_dates, discount_factors, day_count, interpolation, compounding) ==
    IF schedule = <<>>
    THEN Raise("invalid swap schedule")
    ELSE IF pillar_dates = <<>>
    THEN Bind(YearFraction(valuation_date, swap_maturity, day_count),
              LAMBDA t : FirstSwapDf(t, swap_rate))
    ELSE Bind(BuildFromDiscountFactors(valuation_date, pillar_dates,
                                       discount_factors, day_count,
                                       interpolation, compounding),
              LAMBDA temp :
                IF ~temp.ok THEN temp
                ELSE LaterSwapDf(valuation_date, swap_maturity, swap_rate,
                                 schedule, temp.v))

\* build_yield_curve_from_swaps, the body of "for swap_maturity, swap_rate":
\* the discount factor appended for this swap, or the error raised
BootstrapSwap(valuation_date, swap_maturity, swap_rate, swap_frequency, pillar_dates, discount_factors, day_count, interpolation, compounding) ==
    IF GenerateScheduleRaises(valuation_date, swap_maturity, swap_frequency)
    THEN Raise("generate_schedule")
    ELSE Bind(GenerateSchedule(valuation_date, swap_maturity, swap_frequency),
              LAMBDA full :
                ScheduledSwapDf(valuation_date, swap_maturity, swap_rate,
                                IF full[1] = valuation_date THEN Tail(full)
                                ELSE full,
                                pillar_dates, discount_factors, day_count,
                                interpolation, compounding))

\* build_yield_curve_from_swaps, the loop over the sorted swaps from swap k
\* on: the pillars bootstrapped, or the error that ended the loop
RECURSIVE BootstrapLoop(_, _, _, _, _, _, _, _, _)
BootstrapLoop(k, valuation_date, sorted_pairs, swap_frequency, pillar_dates, discount_factors, day_count, interpolation, compounding) ==
    IF k > Len(sorted_pairs)
    THEN [ok |-> TRUE, err |-> "", pillar_dates |-> pillar_dates,
          discount_factors |-> discount_factors]
    ELSE Bind(BootstrapSwap(valuation_date, sorted_pairs[k][1],
                            sorted_pairs[k][2], swap_frequency, pillar_dates,
                            discount_factors, day_count, interpolation,
                            compounding),
              LAMBDA df :
                IF ~df.ok
                THEN [ok |-> FALSE, err |-> df.err, pillar_dates |-> pillar_dates,
                      discount_factors |-> discount_factors]
                ELSE BootstrapLoop(k + 1, valuation_date, sorted_pairs,
                                   swap_frequency,
                                   Append(pillar_dates, sorted_pairs[k][1]),
                                   Append(discount_factors, df.v),
                                   day_count, interpolation, compounding))

\* build_yield_curve_from_swaps, up to the final call: the bootstrapped
\* (pillar date, discount factor) lists, or the error raised
BootstrapPillars(valuation_date, swap_maturities, par_swap_rates, swap_frequency, day_count, interpolation, compounding) ==
    IF Len(swap_maturities) # Len(par_swap_rates)
    THEN [ok |-> FALSE, err |-> "same length", pillar_dates |-> <<>>,
          discount_factors |-> <<>>]
    ELSE IF Len(swap_maturities) = 0
    THEN [ok |-> FALSE, err |-> "at least one swap", pillar_dates |-> <<>>,
          discount_factors |-> <<>>]
    ELSE BootstrapLoop(1, valuation_date,
                       SortPairs(Zip(swap_maturities, par_swap_rates)),
                       swap_frequency, <<>>, <<>>,
                       day_count, interpolation, compounding)

\* build_yield_curve_from_swaps, the final call: the curve built from the
\* bootstrapped pillars
FromBootstrapped(bootstrapped, valuation_date, day_count, interpolation, compounding) ==
    IF ~bootstrapped.ok THEN Raise(bootstrapped.err)
    ELSE BuildFromDiscountFactors(valuation_date, bootstrapped.pillar_dates,
                                  bootstrapped.discount_factors, day_count,
                                  interpolation, compounding)

\* build_yield_curve_from_swaps
BuildFromSwaps(valuation_date, swap_maturities, par_swap_rates, swap_frequency, day_count, interpolation, compounding) ==
    FromBootstrapped(BootstrapPillars(valuation_date, swap_maturities,
                                      par_swap_rates, swap_frequency, day_count,
                                      interpolation, compounding),
                     valuation_date, day_count, interpolation, compounding)

---------------------------------------------------------------------------
(* market_data/vol_surface.py                                              *)

\* InterpolationMethod of the surface
VolInterpolationMethod == {"linear", "flat"}

ExtrapolationMethod == {"flat", "linear"}

\* vol_surface._validate_strictly_increasing: TRUE when it returns
VolStrictlyIncreasing(values) ==
    \A i \in 2..Len(values) : values[i] > values[i - 1]

\* vol_surface._linear_interpolate
VolLinearInterpolate(x0, y0, x1, y1, x) ==
    IF x1 = x0 THEN y0
    ELSE LET w == Ratio(x - x0, x1 - x0)
         IN  Mul(One - w, y0) + Mul(w, y1)

\* The rows __post_init__ stops at: a row of the wrong length, or one that
\* holds a negative volatility
BadRows(tenor_times, volatility_matrix) ==
    {i \in 1..Len(volatility_matrix) :
        \/ Len(volatility_matrix[i]) # Len(tenor_times)
        \/ \E j \in 1..Len(volatility_matrix[i]) : volatility_matrix[i][j] < 0}

\* The error of the first row __post_init__ stops at
RowError(tenor_times, volatility_matrix, bad) ==
    LET i == CHOOSE k \in bad : \A l \in bad : k <= l
    IN  IF Len(volatility_matrix[i]) # Len(tenor_times)
        THEN Raise("volatility_matrix row must have one column per tenor.")
        ELSE Raise("Volatility must be non-negative.")

\* VolatilitySurface(...): the dataclass constructor and __post_init__
VolatilitySurface(valuation_date, expiry_times, tenor_times, volatility_matrix, interpolation, extrapolation, day_count) ==
    IF Len(expiry_times) = 0
    THEN Raise("At least one expiry time is required.")
    ELSE IF Len(tenor_times) = 0
    THEN Raise("At least one tenor time is required.")
    ELSE IF ~VolStrictlyIncreasing(expiry_times) \/ ~VolStrictlyIncreasing(tenor_times)
    THEN Raise("Values must be strictly increasing.")
    ELSE IF Len(volatility_matrix) # Len(expiry_times)
    THEN Raise("volatility_matrix must have one row per expiry.")
    ELSE IF BadRows(tenor_times, volatility_matrix) # {}
    THEN RowError(tenor_times, volatility_matrix,
                  BadRows(tenor_times, volatility_matrix))
    ELSE Return([valuation_date    |-> valuation_date,
                 expiry_times      |-> expiry_times,
                 tenor_times       |-> tenor_times,
                 volatility_matrix |-> volatility_matrix,
                 interpolation     |-> interpolation,
                 extrapolation     |-> extrapolation,
                 day_count         |-> day_count])

\* _find_index, as the 0-based index Python returns (-1: at or below the
\* first time)
FindIndex(times, t) ==
    IF t <= times[1] THEN -1
    ELSE IF t >= times[Len(times)] THEN Len(times) - 1
    ELSE BisectRight(times, t) - 1

\* _get_bounds, for a 0-based idx
GetBounds(self, times, idx) ==
    LET n == Len(times)
    IN  IF idx < 0
        THEN IF self.extrapolation = "flat" THEN <<times[1], times[1]>>
             ELSE IF n > 1 THEN <<times[1], times[2]>>
             ELSE <<times[1], times[1]>>
        ELSE IF idx >= n - 1
        THEN IF self.extrapolation = "flat" THEN <<times[n], times[n]>>
             ELSE IF n > 1 THEN <<times[n - 1], times[n]>>
             ELSE <<times[n], times[n]>>
        ELSE <<times[idx + 1], times[idx + 2]>>

\* A slip in _interpolate_1d: the method tested is the extrapolation one
Interpolate1dByExtrapolation(self, x0, y0, x1, y1, x) ==
    IF self.extrapolation = "flat" THEN y0
    ELSE VolLinearInterpolate(x0, y0, x1, y1, x)

\* _interpolate_1d
Interpolate1d(self, x0, y0, x1, y1, x) ==
    IF self.interpolation = "flat" THEN y0
    ELSE VolLinearInterpolate(x0, y0, x1, y1, x)

\* The two rows volatility_at_times works between, for a 0-based exp_idx
VolRows(self, exp_idx) ==
    LET matrix == self.volatility_matrix
        n      == Len(self.expiry_times)
    IN  IF exp_idx < 0
        THEN <<matrix[1], IF n = 1 THEN matrix[1] ELSE matrix[2]>>
        ELSE IF exp_idx >= n - 1
        THEN IF n > 1 /\ self.extrapolation = "linear"
             THEN <<matrix[n - 1], matrix[n]>>
             ELSE <<matrix[n], matrix[n]>>
        ELSE <<matrix[exp_idx + 1], matrix[exp_idx + 2]>>

\* The value of one row at tenor_time, for a 0-based ten_idx
VolAlongTenor(self, row, ten_idx, ten_bounds, tenor_time) ==
    IF ten_idx < 0 THEN row[1]
    ELSE IF ten_idx >= Len(self.tenor_times) - 1 THEN row[Len(row)]
    ELSE Interpolate1d(self, ten_bounds[1], row[ten_idx + 1],
                       ten_bounds[2], row[ten_idx + 2], tenor_time)

\* The rest of volatility_at_times, once the indices are found
VolAtIndices(self, exp_idx, ten_idx, expiry_time, tenor_time) ==
    LET exp_bounds == GetBounds(self, self.expiry_times, exp_idx)
        ten_bounds == GetBounds(self, self.tenor_times, ten_idx)
        rows       == VolRows(self, exp_idx)
        vol_low    == VolAlongTenor(self, rows[1], ten_idx, ten_bounds, tenor_time)
        vol_high   == VolAlongTenor(self, rows[2], ten_idx, ten_bounds, tenor_time)
    IN  Interpolate1d(self, exp_bounds[1], vol_low, exp_bounds[2], vol_high,
                      expiry_time)

\* A slip in volatility_at_times: the tenor time not checked
VolatilityAtTimesNoTenorCheck(self, expiry_time, tenor_time) ==
    IF expiry_time < 0 THEN Raise("expiry_time must be non-negative.")
    ELSE Return(VolAtIndices(self, FindIndex(self.expiry_times, expiry_time),
                             FindIndex(self.tenor_times, tenor_time),
                             expiry_time, tenor_time))

\* volatility_at_times
VolatilityAtTimes(self, expiry_time, tenor_time) ==
    IF expiry_time < 0 THEN Raise("expiry_time must be non-negative.")
    ELSE IF tenor_time < 0 THEN Raise("tenor_time must be non-negative.")
    ELSE Return(VolAtIndices(self, FindIndex(self.expiry_times, expiry_time),
                             FindIndex(self.tenor_times, tenor_time),
                             expiry_time, tenor_time))

\* volatility
Volatility(self, expiry_date, tenor_years) ==
    IF DateLT(expiry_date, self.valuation_date)
    THEN Raise("expiry_date must be on or after valuation_date.")
    ELSE VolatilityAtTimes(self,
                           YearFraction(self.valuation_date, expiry_date,
                                        self.day_count),
                           tenor_years)

---------------------------------------------------------------------------
(* models/hull_white.py                                                    *)

\* DiscretizationScheme
DiscretizationScheme == {"exact", "euler"}

Max(a, b) == IF a >= b THEN a ELSE b

\* int(x) of a float x: the fraction dropped, towards zero
Trunc(x) == Sgn(x) * (Abs(x) \div One)

\* math.sqrt(x) for x > 0, by Newton's iteration from s
RECURSIVE SqrtFrom(_, _)
SqrtFrom(x, s) ==
    IF Abs(((s + Ratio(x, s)) \div 2) - s) <= 1
    THEN (s + Ratio(x, s)) \div 2
    ELSE SqrtFrom(x, (s + Ratio(x, s)) \div 2)

\* math.sqrt
Sqrt(x) == IF x = 0 THEN 0 ELSE SqrtFrom(x, One)

\* The years the dates of the model fall in
CalendarYears == 2020..2040

\* The month of year y the ordinal n falls in
MonthOfOrdinal(y, n) ==
    CHOOSE m \in 1..12 :
        /\ ToOrdinal(Date(y, m, 1)) <= n
        /\ n < ToOrdinal(Date(y, m, 1)) + DaysInMonth(y, m)

\* The date of ordinal n in year y
DateInYear(y, n) ==
    Date(y, MonthOfOrdinal(y, n),
         n - ToOrdinal(Date(y, MonthOfOrdinal(y, n), 1)) + 1)

\* date.fromordinal
FromOrdinal(n) ==
    DateInYear(CHOOSE y \in CalendarYears :
                   ToOrdinal(Date(y, 1, 1)) <= n /\ n < ToOrdinal(Date(y + 1, 1, 1)),
               n)

\* d + timedelta(days=days)
AddDays(d, days) == FromOrdinal(ToOrdinal(d) + days)

\* random_shocks=None, and random_shocks=v
None == [given |-> FALSE, v |-> <<>>]

Given(v) == [given |-> TRUE, v |-> v]

\* A slip in __post_init__: a volatility of zero accepted
HullWhite1FZeroVolatility(yield_curve, mean_reversion, volatility, scheme, day_count) ==
    IF mean_reversion <= 0 THEN Raise("mean_reversion must be positive.")
    ELSE IF volatility < 0 THEN Raise("volatility must be positive.")
    ELSE Return([yield_curve    |-> yield_curve,
                 mean_reversion |-> mean_reversion,
                 volatility     |-> volatility,
                 scheme         |-> scheme,
                 day_count      |-> day_count])

\* HullWhite1F(...): the dataclass constructor and __post_init__
HullWhite1F(yield_curve, mean_reversion, volatility, scheme, day_count) ==
    IF mean_reversion <= 0 THEN Raise("mean_reversion must be positive.")
    ELSE IF volatility <= 0 THEN Raise("volatility must be positive.")
    ELSE Return([yield_curve    |-> yield_curve,
                 mean_reversion |-> mean_reversion,
                 volatility     |-> volatility,
                 scheme         |-> scheme,
                 day_count      |-> day_count])

\* _time_to_date
TimeToDate(self, t) ==
    AddDays(self.yield_curve.valuation_date,
            IF self.day_count = "ACT/365" THEN Trunc(t * 365)
            ELSE IF self.day_count = "ACT/360" THEN Trunc(t * 360)
            ELSE Trunc(t * 365))

\* _initial_short_rate
InitialShortRate(self, t) == ZeroRate(self.yield_curve, TimeToDate(self, t))

\* fwd * (T - t) of _forward_rate_integral, for the outcome fwd of
\* forward_rate
TimesPeriod(fwd, t, T) == IF fwd.ok THEN Return(Mul(fwd.v, T - t)) ELSE fwd

\* _forward_rate_integral
ForwardRateIntegral(self, t, T) ==
    TimesPeriod(ForwardRate(self.yield_curve, TimeToDate(self, t),
                            TimeToDate(self, T)),
                t, T)

\* B(t, T) of bond_price
BondB(self, tau) ==
    Ratio(One - Exp(-Mul(self.mean_reversion, tau)), self.mean_reversion)

\* 0.5 * (sigma**2 / a**2) * (B - tau) * (1.0 - math.exp(-2.0 * a * t))
Convexity(self, B, tau, t) ==
    Mul(Mul(Mul(One \div 2,
                Ratio(Mul(self.volatility, self.volatility),
                      Mul(self.mean_reversion, self.mean_reversion))),
            B - tau),
        One - Exp(-Mul(2 * self.mean_reversion, t)))

\* A slip in bond_price: the short rate enters with the opposite sign
AffinePricePositiveExponent(self, t, T, r_t, B, P_market_t, P_market_T, integral) ==
    IF ~P_market_t.ok THEN P_market_t
    ELSE IF ~P_market_T.ok THEN P_market_T
    ELSE IF ~integral.ok THEN integral
    ELSE Return(Mul(Mul(Ratio(P_market_T.v, P_market_t.v),
                        Exp(Mul(B, integral.v) - Convexity(self, B, T - t, t))),
                    Exp(Mul(B, r_t))))

\* A(t, T) * exp(-B * r_t) of bond_price, for the outcomes of the calls it
\* makes of the curve
AffinePrice(self, t, T, r_t, B, P_market_t, P_market_T, integral) ==
    IF ~P_market_t.ok THEN P_market_t
    ELSE IF ~P_market_T.ok THEN P_market_T
    ELSE IF ~integral.ok THEN integral
    ELSE Return(Mul(Mul(Ratio(P_market_T.v, P_market_t.v),
                        Exp(Mul(B, integral.v) - Convexity(self, B, T - t, t))),
                    Exp(-Mul(B, r_t))))

\* A slip in bond_price: a bond at its maturity priced by the closed form
BondPriceNoMaturityCase(self, t, T, r_t) ==
    IF T < t THEN Raise("Bond maturity T must be >= current time t.")
    ELSE IF t < 0 \/ T < 0 THEN Raise("Times must be non-negative.")
    ELSE AffinePrice(self, t, T, r_t, BondB(self, T - t),
                     DiscountFactor(self.yield_curve, TimeToDate(self, t)),
                     DiscountFactor(self.yield_curve, TimeToDate(self, T)),
                     ForwardRateIntegral(self, t, T))

\* A slip in bond_price: negative times let through
BondPriceNoSignCheck(self, t, T, r_t) ==
    IF T < t THEN Raise("Bond maturity T must be >= current time t.")
    ELSE IF T - t = 0 THEN Return(One)
    ELSE AffinePrice(self, t, T, r_t, BondB(self, T - t),
                     DiscountFactor(self.yield_curve, TimeToDate(self, t)),
                     DiscountFactor(self.yield_curve, TimeToDate(self, T)),
                     ForwardRateIntegral(self, t, T))

\* bond_price
BondPrice(self, t, T, r_t) ==
    IF T < t THEN Raise("Bond maturity T must be >= current time t.")
    ELSE IF t < 0 \/ T < 0 THEN Raise("Times must be non-negative.")
    ELSE IF T - t = 0 THEN Return(One)
    ELSE AffinePrice(self, t, T, r_t, BondB(self, T - t),
                     DiscountFactor(self.yield_curve, TimeToDate(self, t)),
                     DiscountFactor(self.yield_curve, TimeToDate(self, T)),
                     ForwardRateIntegral(self, t, T))

\* HullWhite1F.discount_factor
ModelDiscountFactor(self, t, T, r_t) == BondPrice(self, t, T, r_t)

\* (sigma**2 / (2.0 * a)) * (1.0 - math.exp(-2.0 * a * t))
VarianceTerm(self, t) ==
    Mul(Ratio(Mul(self.volatility, self.volatility), 2 * self.mean_reversion),
        One - Exp(-Mul(2 * self.mean_reversion, t)))

\* t1_date of _theta: the date of t + eps, or of a hundredth later when
\* that is no later than t_date
Theta1Date(self, t, eps, t_date, d) ==
    IF DateLE(d, t_date) THEN TimeToDate(self, t + Max(10000, Mul(t, 10000)))
    ELSE d

\* t2_date of _theta
Theta2Date(self, t, eps, t1_date, d) ==
    IF DateLE(d, t1_date) THEN TimeToDate(self, t + Max(20000, Mul(t, 20000)))
    ELSE d

\* The return value of _theta, for the outcomes of its two forward_rate
\* calls
ThetaValue(self, t, eps, f_t, f_t_plus) ==
    IF ~f_t.ok THEN f_t
    ELSE IF ~f_t_plus.ok THEN f_t_plus
    ELSE Return(Ratio(f_t_plus.v - f_t.v, eps)
                + Mul(self.mean_reversion, f_t.v)
                + VarianceTerm(self, t))

\* _theta, from t1_date on
ThetaFrom(self, t, eps, t_date, t1_date) ==
    ThetaValue(self, t, eps,
               ForwardRate(self.yield_curve, t_date, t1_date),
               ForwardRate(self.yield_curve, t1_date,
                           Theta2Date(self, t, eps, t1_date,
                                      TimeToDate(self, t + 2 * eps))))

\* _theta, from eps on
ThetaEps(self, t, eps) ==
    ThetaFrom(self, t, eps, TimeToDate(self, t),
              Theta1Date(self, t, eps, TimeToDate(self, t),
                         TimeToDate(self, t + eps)))

\* _theta
Theta(self, t) == ThetaEps(self, t, Max(100, Mul(t, 1)))

\* integral += weight * self._theta(tau), for the outcome theta
AddWeighted(integral, weight, theta) ==
    IF ~integral.ok THEN integral
    ELSE IF ~theta.ok THEN theta
    ELSE Return(integral.v + weight * theta.v)

\* The loop of _theta_integral from point i on
RECURSIVE ThetaSum(_, _, _, _, _, _)
ThetaSum(self, s, dt, n_points, i, integral) ==
    IF i > n_points \/ ~integral.ok THEN integral
    ELSE ThetaSum(self, s, dt, n_points, i + 1,
                  AddWeighted(integral,
                              IF i = 0 \/ i = n_points THEN 1 ELSE 2,
                              Theta(self, s + i * dt)))

\* integral * dt / 2.0
HalfTimes(integral, dt) ==
    IF integral.ok THEN Return(Ratio(Mul(integral.v, dt), 2 * One)) ELSE integral

\* _theta_integral
ThetaIntegral(self, s, t) ==
    HalfTimes(ThetaSum(self, s, Ratio(t - s, 10 * One), 10, 0, Return(0)),
              Ratio(t - s, 10 * One))

\* rates[i], exact scheme, for the outcome drift_term of _theta_integral
ExactRate(self, previous, dt, drift_term, shock) ==
    IF ~drift_term.ok THEN drift_term
    ELSE Return(Mul(previous, Exp(-Mul(self.mean_reversion, dt)))
                + drift_term.v
                + Mul(Sqrt(VarianceTerm(self, dt)), shock))

\* rates[i], Euler scheme, for the outcome theta_t of _theta
EulerRate(self, previous, dt, theta_t, shock) ==
    IF ~theta_t.ok THEN theta_t
    ELSE Return(previous
                + Mul(theta_t.v - Mul(self.mean_reversion, previous), dt)
                + Mul(Mul(self.volatility, Sqrt(dt)), shock))

\* A slip in the loops of _simulate_exact and _simulate_euler: every pass
\* takes the last shock of the list
RateAtLastShock(self, times, random_shocks, rates, i) ==
    IF times[i] - times[i - 1] <= 0
    THEN Raise("Times must be strictly increasing.")
    ELSE IF self.scheme = "exact"
    THEN ExactRate(self, rates[i - 1], times[i] - times[i - 1],
                   ThetaIntegral(self, times[i - 1], times[i]),
                   random_shocks[Len(random_shocks)])
    ELSE EulerRate(self, rates[i - 1], times[i] - times[i - 1],
                   Theta(self, times[i - 1]), random_shocks[Len(random_shocks)])

\* One pass of the loop of _simulate_exact or _simulate_euler: rates[i],
\* for the 1-based i >= 2
RateAt(self, times, random_shocks, rates, i) ==
    IF times[i] - times[i - 1] <= 0
    THEN Raise("Times must be strictly increasing.")
    ELSE IF self.scheme = "exact"
    THEN ExactRate(self, rates[i - 1], times[i] - times[i - 1],
                   ThetaIntegral(self, times[i - 1], times[i]),
                   random_shocks[i - 1])
    ELSE EulerRate(self, rates[i - 1], times[i] - times[i - 1],
                   Theta(self, times[i - 1]), random_shocks[i - 1])

\* The loop of _simulate_exact or _simulate_euler from the 1-based i on
RECURSIVE SimulateLoop(_, _, _, _, _)
SimulateLoop(self, times, random_shocks, rates, i) ==
    IF i > Len(times) THEN Return(rates)
    ELSE Bind(RateAt(self, times, random_shocks, rates, i),
              LAMBDA rate :
                  IF ~rate.ok THEN rate
                  ELSE SimulateLoop(self, times, random_shocks,
                                    Append(rates, rate.v), i + 1))

\* A slip in _simulate_exact and _simulate_euler: the shocks drawn whether
\* or not the caller supplied any
ShocksUsedAlwaysDrawn(random_shocks, drawn) == drawn

\* The shocks _simulate_exact and _simulate_euler work with: the ones
\* np.random.standard_normal(n - 1) returned when random_shocks is None,
\* the caller's otherwise
ShocksUsed(random_shocks, drawn) ==
    IF ~random_shocks.given THEN drawn ELSE random_shocks.v

\* _simulate_exact and _simulate_euler, alike but for the pass of the loop
SimulateScheme(self, times, r0, random_shocks, drawn) ==
    IF random_shocks.given /\ Len(random_shocks.v) # Len(times) - 1
    THEN Raise("random_shocks must have length n - 1.")
    ELSE SimulateLoop(self, times, ShocksUsed(random_shocks, drawn), <<r0>>, 2)

\* simulate_short_rate_path from r0 on, for the outcome of
\* _initial_short_rate
SimulateFrom(self, times, r0, random_shocks, drawn) ==
    IF ~r0.ok THEN r0
    ELSE SimulateScheme(self, times, r0.v, random_shocks, drawn)

\* A slip in simulate_short_rate_path: the first time not checked
SimulateNoSignCheck(self, times, random_shocks, drawn) ==
    IF Len(times) = 0 THEN Return(<<>>)
    ELSE SimulateFrom(self, times, InitialShortRate(self, times[1]),
                      random_shocks, drawn)

\* simulate_short_rate_path, `drawn` being what np.random.standard_normal
\* returns if it is called
SimulateShortRatePath(self, times, random_shocks, drawn) ==
    IF Len(times) = 0 THEN Return(<<>>)
    ELSE IF times[1] < 0 THEN Raise("All times must be non-negative.")
    ELSE SimulateFrom(self, times, InitialShortRate(self, times[1]),
                      random_shocks, drawn)

\* How many normals simulate_short_rate_path draws from np.random
DrawsMade(times, random_shocks) ==
    IF Len(times) = 0 \/ times[1] < 0 \/ random_shocks.given THEN 0
    ELSE Len(times) - 1

---------------------------------------------------------------------------
(* The inputs the model draws                                              *)

\* Every sequence over S of length 1..n
RECURSIVE SeqsUpTo(_, _)
SeqsUpTo(S, n) ==
    IF n = 0 THEN {}
    ELSE LET shorter == SeqsUpTo(S, n - 1)
         IN  {<<x>> : x \in S}
             \cup shorter
             \cup {Append(q, x) : q \in {r \in shorter : Len(r) = n - 1}, x \in S}

\* The most pillars one call is given
MaxPillars == 3

\* The most swaps one call is given
MaxSwaps == 2

ValuationDate == Date(2024, 1, 1)

\* (pillar date, zero rate) quotes: a date before the valuation date, the
\* valuation date itself, two dates a day apart that 30/360 maps to one
\* year-fraction, and two yearly pillars, the second with a lower zero rate
\* and a lower discount factor than the first
ZeroQuotes ==
    { <<Date(2023, 12, 31), 20000>>,
      <<Date(2024, 1, 1),   30000>>,
      <<Date(2024, 1, 31),  20000>>,
      <<Date(2024, 2, 1),   40000>>,
      <<Date(2025, 1, 1),   100000>>,
      <<Date(2026, 1, 1),   51000>> }

\* (pillar date, discount factor) quotes: factors inside (0, 1], the bound
\* 1.0, a value strictly between 1.0 and 1.0 + 1e-12, the value 1.0 + 1e-12,
\* zero, and a pillar on the valuation date
DfQuotes ==
    { <<Date(2024, 1, 1),  990000>>,
      <<Date(2024, 1, 15), One>>,
      <<Date(2024, 1, 31), One + 1>>,
      <<Date(2025, 1, 1),  970000>>,
      <<Date(2025, 1, 1),  0>>,
      <<Date(2026, 1, 1),  One + DfTol>>,
      <<Date(2026, 1, 1),  930000>> }

\* The dates queried: before the valuation date, on it, before the first
\* pillar, on pillars, between pillars and beyond the last
QueryDates ==
    { Date(2023, 12, 31), Date(2024, 1, 1), Date(2024, 1, 15), Date(2024, 1, 31),
      Date(2025, 1, 1), Date(2025, 7, 2), Date(2026, 1, 1), Date(2027, 1, 1) }

\* The valuation date of the swap curves: a 30th, so that under 30/360 a
\* maturity on the 31st of a later month ends a period of no length
SwapValuationDate == Date(2023, 12, 30)

\* (maturity, par rate) quotes: a half-year maturity, a one-year maturity
\* at a rate just below zero, a maturity a day after the one-year payment
\* date, and two-year maturities at an ordinary rate and at a rate so high
\* that the known coupons are worth more than par
SwapQuotes ==
    { <<Date(2024, 6, 30),  25000>>,
      <<Date(2024, 12, 30), -1>>,
      <<Date(2024, 12, 31), 50000>>,
      <<Date(2025, 12, 30), 30000>>,
      <<Date(2025, 12, 30), 9 * One>> }

\* swap_frequency: "6M", "1Y"
SwapFrequencies == {Frequency(6, "M"), Frequency(1, "Y")}

Firsts(pairs) == [i \in 1..Len(pairs) |-> pairs[i][1]]

Seconds(pairs) == [i \in 1..Len(pairs) |-> pairs[i][2]]

\* The value lists a call may pass along with the dates of `pairs`: the
\* paired values, and for short inputs lists of another length
ValueLists(pairs) ==
    {Seconds(pairs)}
    \cup (IF Len(pairs) = 1 THEN {<<>>, Append(Seconds(pairs), 20000)} ELSE {})

\* The most expiries and the most tenors a surface is given
MaxExpiries == 3

MaxTenors == 2

\* The grid times: 1.0, 2.0, ..., n years
GridTimes(n) == {k * One : k \in 1..n}

\* The expiry grids and the tenor grids passed: every sequence of grid
\* times, increasing or not, and the empty one
ExpiryGrids == SeqsUpTo(GridTimes(MaxExpiries), MaxExpiries) \cup {<<>>}

TenorGrids == SeqsUpTo(GridTimes(MaxTenors), MaxTenors) \cup {<<>>}

\* The volatilities quoted: 20% and 26%
VolQuotes == {200000, 260000}

\* The n x m matrices over the quotes
Matrices(n, m) == [1..n -> [1..m -> VolQuotes]]

\* A matrix that does not fit an n x m grid: a row short, a column too
\* many in the last row, or a negative volatility in the last row
Defects(n, m) ==
    LET flat == [i \in 1..n |-> [j \in 1..m |-> 200000]]
    IN  { SubSeq(flat, 1, n - 1),
          [flat EXCEPT ![n] = Append(flat[n], 200000)],
          [flat EXCEPT ![n][m] = -10000] }

\* The matrices passed along with the grids: for a valid grid every matrix
\* of its shape and the ones that do not fit, for any other grid one
\* matrix of its shape
MatricesFor(expiry_times, tenor_times) ==
    LET n == Len(expiry_times)
        m == Len(tenor_times)
    IN  IF n > 0 /\ m > 0 /\ VolStrictlyIncreasing(expiry_times)
                         /\ VolStrictlyIncreasing(tenor_times)
        THEN Matrices(n, m) \cup Defects(n, m)
        ELSE {[i \in 1..n |-> [j \in 1..m |-> 200000]]}

\* The expiry and tenor times queried: a negative time, zero, every half
\* year up to a year past the last grid time, and eight years
QueryTimes(n) ==
    {(k * One) \div 2 : k \in 0..(2 * n + 2)} \cup {-(One \div 2), 8 * One}

\* The curves the models are calibrated to: a flat 3% curve of one pillar,
\* and a rising curve of two pillars with zero rates interpolated linearly
ModelCurves ==
    { YieldCurve(ValuationDate, <<Date(2025, 1, 1)>>, <<30000>>,
                 "ACT/365", "log_linear_df", "cont").v,
      YieldCurve(ValuationDate, <<Date(2025, 1, 1), Date(2026, 1, 1)>>,
                 <<30000, 32000>>, "ACT/365", "linear_zero", "cont").v }

\* mean_reversion: -0.1, 0, 0.1
MeanReversions == {-100000, 0, 100000}

\* volatility: -1%, 0, 1%
Volatilities == {-10000, 0, 10000}

\* The day counts a model converts times to dates with
ModelDayCounts == {"ACT/365", "ACT/360"}

\* t and T of bond_price: a negative time, zero, a time within the first
\* day, one year and two years
BondTimes == {-(One \div 2), 0, 1000, One, 2 * One}

\* r_t of bond_price: -1%, 2%, 3%
ShortRates == {-10000, 20000, 30000}

\* The most time points one simulation is given
MaxTimes == 3

\* The entries of the time grids: a negative time within the first day,
\* zero, half a year and a year
SimTimes == {-1000, 0, One \div 2, One}

\* The time grids simulated: every sequence of the entries, increasing or
\* not, and the empty grid
TimeGrids == SeqsUpTo(SimTimes, MaxTimes) \cup {<<>>}

\* The shocks a caller supplies: -1.0 and 0.5
ShockValues == {-One, One \div 2}

\* random_shocks: None, or a list of up to MaxTimes shocks (one more than
\* the longest grid takes)
ShockLists ==
    {None} \cup {Given(v) : v \in SeqsUpTo(ShockValues, MaxTimes) \cup {<<>>}}

\* The normals np.random hands out, in turn and again from the start
Normals == <<One \div 2, -One, One \div 4>>

\* np.random.standard_normal(k) in state rng of the generator
Draw(rng, k) == [i \in 1..k |-> Normals[((rng + i - 1) % Len(Normals)) + 1]]

\* The most calls made of one model
MaxCalls == 3

---------------------------------------------------------------------------
(* The state machine                                                       *)

VARIABLES
    built,   \* the constructor or builder called, and its arguments
    curve,   \* its outcome: the YieldCurve returned, or the error raised
    boot,    \* build_yield_curve_from_swaps: its pillar lists when it ended
    query,   \* the last query made of the curve, and its outcome
    surface, \* the VolatilitySurface constructed, or the error raised
    volq,    \* the last query made of the surface, and its outcome
    model,   \* the HullWhite1F constructed, or the error raised
    rng,     \* the state of the process-level generator np.random
    call,    \* the last call made of the model, and its outcome
    first,   \* the first simulation with supplied shocks that returned
    ncalls,  \* how many calls were made of the model
    sched    \* the generate_schedule call under way: its place, its locals

vars == <<built, curve, boot, query, surface, volq, model, rng, call, first, ncalls, sched>>

modelVars == <<model, rng, call, first, ncalls>>

volVars == <<surface, volq>>

curveVars == <<built, curve, boot, query>>

NoVolQuery == [op |-> "none", expiry_time |-> 0, tenor_time |-> 0, result |-> Raise("")]

Call(op, t, T, r_t, times, random_shocks, result) ==
    [op |-> op, t |-> t, T |-> T, r_t |-> r_t, times |-> times,
     random_shocks |-> random_shocks, result |-> result]

NoCall == Call("none", 0, 0, 0, <<>>, None, Raise(""))

NoFirst == [set |-> FALSE, times |-> <<>>, random_shocks |-> None, result |-> Raise("")]

NoFrequency == Frequency(0, "")

NoBoot == [ok |-> FALSE, err |-> "", pillar_dates |-> <<>>, discount_factors |-> <<>>]

NoQuery == [op |-> "none", date |-> ValuationDate, result |-> Raise("")]

Built(how, valuation_date, dates, values, frequency, day_count, interpolation, compounding) ==
    [how |-> how, valuation_date |-> valuation_date, dates |-> dates,
     values |-> values, frequency |-> frequency, day_count |-> day_count,
     interpolation |-> interpolation, compounding |-> compounding]

\* generate_schedule raising: no list of dates returned
ScheduleRaise(e) == [ok |-> FALSE, v |-> <<>>, err |-> e]

\* No generate_schedule call made yet
NoSchedule ==
    [pc |-> "idle", start_date |-> ValuationDate, end_date |-> ValuationDate,
     frequency |-> NoFrequency, current_date |-> ValuationDate,
     schedule |-> <<>>, result |-> ScheduleRaise("")]

Init ==
    /\ built = Built("none", ValuationDate, <<>>, <<>>, NoFrequency,
                     "ACT/365", "log_linear_df", "cont")
    /\ curve = Raise("")
    /\ boot = NoBoot
    /\ query = NoQuery
    /\ surface = [made |-> FALSE, result |-> Raise("")]
    /\ volq = NoVolQuery
    /\ model = [made |-> FALSE, mean_reversion |-> 0, volatility |-> 0,
                result |-> Raise("")]
    /\ rng = 0
    /\ call = NoCall
    /\ first = NoFirst
    /\ ncalls = 0
    /\ sched = NoSchedule

\* YieldCurve(valuation_date, pillar_dates, pillar_zero_rates, ...)
NewYieldCurve ==
    /\ built.how = "none"
    /\ \E pairs \in SeqsUpTo(ZeroQuotes, MaxPillars) \cup {<<>>} :
       \E zeros \in ValueLists(pairs) :
       \E dc \in DayCountConvention, im \in InterpolationMethod,
          cm \in CompoundingMethod :
          /\ built' = Built("YieldCurve", ValuationDate, Firsts(pairs), zeros,
                            NoFrequency, dc, im, cm)
          /\ curve' = YieldCurve(ValuationDate, Firsts(pairs), zeros, dc, im, cm)
    /\ UNCHANGED <<boot, query>>
    /\ UNCHANGED volVars
    /\ UNCHANGED modelVars
    /\ UNCHANGED sched

\* build_yield_curve_from_discount_factors(...)
CallBuildFromDiscountFactors ==
    /\ built.how = "none"
    /\ \E pairs \in SeqsUpTo(DfQuotes, MaxPillars) \cup {<<>>} :
       \E dfs \in ValueLists(pairs) :
       \E dc \in DayCountConvention, im \in InterpolationMethod,
          cm \in CompoundingMethod :
          /\ built' = Built("from_discount_factors", ValuationDate,
                            Firsts(pairs), dfs, NoFrequency, dc, im, cm)
          /\ curve' = BuildFromDiscountFactors(ValuationDate, Firsts(pairs),
                                               dfs, dc, im, cm)
    /\ UNCHANGED <<boot, query>>
    /\ UNCHANGED volVars
    /\ UNCHANGED modelVars
    /\ UNCHANGED sched

\* curve.discount_factor(target_date)
CallDiscountFactor ==
    /\ curve.ok
    /\ query.op = "none"
    /\ \E d \in QueryDates :
          query' = [op |-> "discount_factor", date |-> d,
                    result |-> DiscountFactor(curve.v, d)]
    /\ UNCHANGED <<built, curve, boot>>
    /\ UNCHANGED volVars
    /\ UNCHANGED modelVars
    /\ UNCHANGED sched

\* curve.zero_rate(target_date)
CallZeroRate ==
    /\ curve.ok
    /\ query.op = "none"
    /\ \E d \in QueryDates :
          query' = [op |-> "zero_rate", date |-> d,
                    result |-> ZeroRate(curve.v, d)]
    /\ UNCHANGED <<built, curve, boot>>
    /\ UNCHANGED volVars
    /\ UNCHANGED modelVars
    /\ UNCHANGED sched

\* build_yield_curve_from_swaps(...)
CallBuildFromSwaps ==
    /\ built.how = "none"
    /\ \E pairs \in SeqsUpTo(SwapQuotes, MaxSwaps) \cup {<<>>} :
       \E rates \in ValueLists(pairs) :
       \E fr \in SwapFrequencies :
       \E dc \in DayCountConvention, im \in InterpolationMethod,
          cm \in CompoundingMethod :
          /\ built' = Built("from_swaps", SwapValuationDate, Firsts(pairs),
                            rates, fr, dc, im, cm)
          /\ boot' = BootstrapPillars(SwapValuationDate, Firsts(pairs), rates,
                                      fr, dc, im, cm)
          /\ curve' = FromBootstrapped(boot', SwapValuationDate, dc, im, cm)
    /\ UNCHANGED query
    /\ UNCHANGED volVars
    /\ UNCHANGED modelVars
    /\ UNCHANGED sched

\* The start and end dates of the forward rates asked: a date before the
\* valuation date, the valuation date, the 30th and the 31st of a month,
\* and the first yearly pillar
ForwardDates ==
    { Date(2023, 12, 31), Date(2024, 1, 1), Date(2024, 1, 30), Date(2024, 1, 31),
      Date(2025, 1, 1) }

\* curve.forward_rate(start_date, end_date)
CallForwardRate ==
    /\ curve.ok
    /\ query.op = "none"
    /\ \E start_date \in ForwardDates, end_date \in ForwardDates :
          query' = [op |-> "forward_rate", date |-> start_date,
                    end_date |-> end_date,
                    result |-> ForwardRate(curve.v, start_date, end_date)]
    /\ UNCHANGED <<built, curve, boot>>
    /\ UNCHANGED volVars
    /\ UNCHANGED modelVars
    /\ UNCHANGED sched

\* A query reads the curve alone, never the outcome of an earlier query, so
\* the queries of a curve are all explored from the state its construction
\* left.
Next ==
    \/ NewYieldCurve
    \/ CallBuildFromDiscountFactors
    \/ CallDiscountFactor
    \/ CallZeroRate

Spec == Init /\ [][Next]_vars

\* The curves bootstrapped from par swap rates, and their discount factors
NextSwaps ==
    \/ CallBuildFromSwaps
    \/ CallDiscountFactor

SpecSwaps == Init /\ [][NextSwaps]_vars

\* The curves and the forward rates between two dates
NextForward ==
    \/ NewYieldCurve
    \/ CallForwardRate

SpecForward == Init /\ [][NextForward]_vars

\* VolatilitySurface(valuation_date, expiry_times, tenor_times, ...)
NewVolatilitySurface ==
    /\ ~surface.made
    /\ \E expiry_times \in ExpiryGrids, tenor_times \in TenorGrids :
       \E matrix \in MatricesFor(expiry_times, tenor_times) :
       \E im \in VolInterpolationMethod, em \in ExtrapolationMethod :
          surface' = [made |-> TRUE,
                      result |-> VolatilitySurface(ValuationDate, expiry_times,
                                                   tenor_times, matrix, im, em,
                                                   "ACT/365")]
    /\ UNCHANGED volq
    /\ UNCHANGED curveVars
    /\ UNCHANGED modelVars
    /\ UNCHANGED sched

\* surface.volatility_at_times(expiry_time, tenor_time)
CallVolatilityAtTimes ==
    /\ surface.result.ok
    /\ volq.op = "none"
    /\ \E expiry_time \in QueryTimes(MaxExpiries), tenor_time \in QueryTimes(MaxTenors) :
          volq' = [op |-> "volatility_at_times", expiry_time |-> expiry_time,
                   tenor_time |-> tenor_time,
                   result |-> VolatilityAtTimes(surface.result.v, expiry_time,
                                                tenor_time)]
    /\ UNCHANGED surface
    /\ UNCHANGED curveVars
    /\ UNCHANGED modelVars
    /\ UNCHANGED sched

\* The expiry dates queried: the day before the valuation date, the
\* valuation date, a year (of 365 days) and a year and a half later
ExpiryDates ==
    { Date(2023, 12, 31), Date(2024, 1, 1), Date(2024, 12, 31), Date(2025, 7, 2) }

\* surface.volatility(expiry_date, tenor_years)
CallVolatility ==
    /\ surface.result.ok
    /\ volq.op = "none"
    /\ \E expiry_date \in ExpiryDates, tenor_years \in QueryTimes(MaxTenors) :
          volq' = [op |-> "volatility", expiry_date |-> expiry_date,
                   tenor_time |-> tenor_years,
                   result |-> Volatility(surface.result.v, expiry_date,
                                         tenor_years)]
    /\ UNCHANGED surface
    /\ UNCHANGED curveVars
    /\ UNCHANGED modelVars
    /\ UNCHANGED sched

\* The surfaces and their queries
NextVol ==
    \/ NewVolatilitySurface
    \/ CallVolatilityAtTimes
    \/ CallVolatility

SpecVol == Init /\ [][NextVol]_vars

\* HullWhite1F(yield_curve, mean_reversion, volatility, scheme, day_count)
NewHullWhite1F ==
    /\ ~model.made
    /\ \E yield_curve \in ModelCurves :
       \E a \in MeanReversions, sigma \in Volatilities :
       \E scheme \in DiscretizationScheme, dc \in ModelDayCounts :
          model' = [made |-> TRUE, mean_reversion |-> a, volatility |-> sigma,
                    result |-> HullWhite1F(yield_curve, a, sigma, scheme, dc)]
    /\ UNCHANGED <<rng, call, first, ncalls>>
    /\ UNCHANGED curveVars
    /\ UNCHANGED volVars
    /\ UNCHANGED sched

\* The arguments of the bond_price and discount_factor calls: every one for
\* the first call of a model, one for the calls that follow a simulation
BondInputs ==
    IF ncalls = 0 THEN BondTimes \X BondTimes \X ShortRates
    ELSE IF first.set THEN {<<0, One, 20000>>}
    ELSE {}

\* The arguments of the simulate_short_rate_path calls: every one for the
\* first call of a model; after a simulation with supplied shocks the same
\* arguments again, and the same grid without shocks
SimulateInputs ==
    IF ncalls = 0 THEN TimeGrids \X ShockLists
    ELSE IF first.set
    THEN {<<first.times, first.random_shocks>>, <<first.times, None>>}
    ELSE {}

\* model.bond_price(t, T, r_t)
CallBondPrice ==
    /\ model.result.ok
    /\ ncalls < MaxCalls
    /\ \E in \in BondInputs :
          call' = Call("bond_price", in[1], in[2], in[3], <<>>, None,
                       BondPrice(model.result.v, in[1], in[2], in[3]))
    /\ ncalls' = ncalls + 1
    /\ UNCHANGED <<model, rng, first>>
    /\ UNCHANGED curveVars
    /\ UNCHANGED volVars
    /\ UNCHANGED sched

\* model.discount_factor(t, T, r_t)
CallModelDiscountFactor ==
    /\ model.result.ok
    /\ ncalls < MaxCalls
    /\ \E in \in BondInputs :
          call' = Call("discount_factor", in[1], in[2], in[3], <<>>, None,
                       ModelDiscountFactor(model.result.v, in[1], in[2], in[3]))
    /\ ncalls' = ncalls + 1
    /\ UNCHANGED <<model, rng, first>>
    /\ UNCHANGED curveVars
    /\ UNCHANGED volVars
    /\ UNCHANGED sched

\* A slip in simulate_short_rate_path: the path kept on the model
CallSimulateStoresPath ==
    /\ model.result.ok
    /\ ncalls < MaxCalls
    /\ \E in \in SimulateInputs :
          /\ call' = Call("simulate_short_rate_path", 0, 0, 0, in[1], in[2],
                          SimulateShortRatePath(model.result.v, in[1], in[2],
                                                Draw(rng, Len(in[1]) - 1)))
          /\ rng' = (rng + DrawsMade(in[1], in[2])) % Len(Normals)
          /\ first' = IF ~first.set /\ in[2].given /\ call'.result.ok
                      THEN [set |-> TRUE, times |-> in[1],
                            random_shocks |-> in[2], result |-> call'.result]
                      ELSE first
          /\ model' = [made |-> TRUE, mean_reversion |-> model.mean_reversion,
                       volatility |-> model.volatility, result |-> model.result,
                       path |-> call'.result]
    /\ ncalls' = ncalls + 1
    /\ UNCHANGED curveVars
    /\ UNCHANGED volVars
    /\ UNCHANGED sched

\* model.simulate_short_rate_path(times, random_shocks)
CallSimulateShortRatePath ==
    /\ model.result.ok
    /\ ncalls < MaxCalls
    /\ \E in \in SimulateInputs :
          /\ call' = Call("simulate_short_rate_path", 0, 0, 0, in[1], in[2],
                          SimulateShortRatePath(model.result.v, in[1], in[2],
                                                Draw(rng, Len(in[1]) - 1)))
          /\ rng' = (rng + DrawsMade(in[1], in[2])) % Len(Normals)
          /\ first' = IF ~first.set /\ in[2].given /\ call'.result.ok
                      THEN [set |-> TRUE, times |-> in[1],
                            random_shocks |-> in[2], result |-> call'.result]
                      ELSE first
    /\ ncalls' = ncalls + 1
    /\ UNCHANGED model
    /\ UNCHANGED curveVars
    /\ UNCHANGED volVars
    /\ UNCHANGED sched

\* The models and the bond prices asked of them
NextModel ==
    \/ NewHullWhite1F
    \/ CallBondPrice
    \/ CallModelDiscountFactor

SpecModel == Init /\ [][NextModel]_vars

\* The models and the paths simulated, with the calls made in between
NextSim ==
    \/ NewHullWhite1F
    \/ CallSimulateShortRatePath
    \/ CallBondPrice

SpecSim == Init /\ [][NextSim]_vars

---------------------------------------------------------------------------
(* Claims about YieldCurve and build_yield_curve_from_discount_factors     *)

\* |a - b| <= tol
Close(a, b, tol) == Abs(a - b) <= tol

\* The bijections of 1..n
IndexPermutations(n) ==
    {p \in [1..n -> 1..n] : \A i, j \in 1..n : p[i] = p[j] => i = j}

Permuted(seq, p) == [i \in 1..Len(seq) |-> seq[p[i]]]

\* Two outcomes agree: both raise, or both return the same value
SameOutcome(a, b) == a.ok = b.ok /\ (a.ok => a.v = b.v)

\* What a rate or a discount factor may lose to rounding on its way through
\* exp, log and pow, in units of the sixth decimal
RoundTol == 100

\* C1: discount_factor(valuation_date) returns exactly 1.0, for every
\* constructed curve.
C1_DfAtValuationIsOne ==
    (curve.ok /\ query.op = "discount_factor"
              /\ query.date = curve.v.valuation_date)
    => query.result = Return(One)

C1_Witness ==
    /\ curve.ok
    /\ query.op = "discount_factor"
    /\ query.date = curve.v.valuation_date
    /\ curve.v.compounding = "annual"
    /\ Len(curve.v.pillar_dates) = 3

\* C2: zero_rate at pillar date i returns pillar_zero_rates[i], the input
\* rate paired with that date: exactly at the first and the last pillar and
\* under linear_zero, within rounding at an interior pillar under
\* log_linear_df (the rate goes through a discount factor and back).
C2_ZeroRateAtPillar ==
    (curve.ok /\ query.op = "zero_rate")
    => \A i \in 1..Len(curve.v.pillar_dates) :
          query.date = curve.v.pillar_dates[i]
          => LET n   == Len(curve.v.pillar_dates)
                 tol == IF i \in {1, n} \/ curve.v.interpolation = "linear_zero"
                        THEN 0 ELSE RoundTol
             IN  /\ query.result.ok
                 /\ Close(query.result.v, curve.v.pillar_zero_rates[i], tol)
                 /\ built.how = "YieldCurve"
                    => \E j \in 1..Len(built.dates) :
                          /\ built.dates[j] = query.date
                          /\ Close(query.result.v, built.values[j], tol)

\* an interior pillar of an unsorted input, queried under log_linear_df
C2_Witness ==
    /\ curve.ok
    /\ built.how = "YieldCurve"
    /\ query.op = "zero_rate"
    /\ curve.v.interpolation = "log_linear_df"
    /\ Len(curve.v.pillar_dates) = 3
    /\ query.date = curve.v.pillar_dates[2]
    /\ built.dates # curve.v.pillar_dates
    /\ query.result.ok

\* C3: round trip.  The curve build_yield_curve_from_discount_factors
\* returns gives back, at each pillar date, the discount factor supplied for
\* it, within rounding, for every compounding and interpolation.
C3_DfRoundTrip ==
    (curve.ok /\ built.how = "from_discount_factors"
              /\ query.op = "discount_factor")
    => \A i \in 1..Len(built.dates) :
          query.date = built.dates[i]
          => query.result.ok /\ Close(query.result.v, built.values[i], RoundTol)

C3_Witness ==
    /\ curve.ok
    /\ built.how = "from_discount_factors"
    /\ query.op = "discount_factor"
    /\ built.compounding = "annual"
    /\ Len(built.dates) = 3
    /\ query.date = built.dates[1]
    /\ built.values[1] = 930000
    /\ query.result.ok

\* C4: below the first pillar time and above the last, zero_rate returns
\* the first (last) pillar's rate unchanged, under both interpolations; a
\* single-pillar curve returns its one rate for every date.
C4_FlatExtrapolation ==
    (curve.ok /\ query.op = "zero_rate"
              /\ DateLE(curve.v.valuation_date, query.date))
    => LET t     == YearFraction(curve.v.valuation_date, query.date,
                                 curve.v.day_count)
           times == curve.v.pillar_times
           zeros == curve.v.pillar_zero_rates
           n     == Len(times)
       IN  /\ t < times[1] => query.result = Return(zeros[1])
           /\ t > times[n] => query.result = Return(zeros[n])
           /\ n = 1 => query.result = Return(zeros[1])

\* a query beyond the last of several pillars
C4_Witness ==
    /\ curve.ok
    /\ query.op = "zero_rate"
    /\ Len(curve.v.pillar_dates) = 2
    /\ query.date = Date(2027, 1, 1)
    /\ curve.v.pillar_zero_rates[1] # curve.v.pillar_zero_rates[2]
    /\ query.result.ok

\* The discount factor at pillar i
PillarDf(self, i) == DiscountFactor(self, self.pillar_dates[i]).v

\* The forward rates between consecutive anchors are non-negative: the
\* pillar discount factors are at most 1 and non-increasing in pillar date
NonNegativeForwards(self) ==
    Bind([i \in 1..Len(self.pillar_dates) |-> PillarDf(self, i)],
         LAMBDA dfs : /\ \A i \in 1..Len(dfs) : dfs[i] <= One
                      /\ \A i \in 1..(Len(dfs) - 1) : dfs[i + 1] <= dfs[i])

\* The date lies strictly between two consecutive pillars
BetweenPillars(self, d) ==
    LET t == YearFraction(self.valuation_date, d, self.day_count)
    IN  \E i \in 1..(Len(self.pillar_times) - 1) :
           self.pillar_times[i] < t /\ t < self.pillar_times[i + 1]

\* C5 as claimed: with non-negative forwards between the anchors, the
\* discount factor is non-increasing in date (up to rounding) for all dates
\* from the valuation date on, under both interpolations.
C5_Original_DfMonotone ==
    (curve.ok /\ query.op = "discount_factor" /\ query.result.ok
              /\ NonNegativeForwards(curve.v))
    => \A d1 \in QueryDates :
          (DateLE(curve.v.valuation_date, d1) /\ DateLE(d1, query.date))
          => DiscountFactor(curve.v, d1).v >= query.result.v - RoundTol

\* C5 as amended: the same under log_linear_df; under linear_zero for the
\* dates that do not lie strictly between two pillars.
C5_DfMonotone ==
    (curve.ok /\ query.op = "discount_factor" /\ query.result.ok
              /\ NonNegativeForwards(curve.v))
    => \A d1 \in QueryDates :
          ( /\ DateLE(curve.v.valuation_date, d1)
            /\ DateLE(d1, query.date)
            /\ \/ curve.v.interpolation = "log_linear_df"
               \/ ~BetweenPillars(curve.v, d1) /\ ~BetweenPillars(curve.v, query.date) )
          => DiscountFactor(curve.v, d1).v >= query.result.v - RoundTol

\* a date between two pillars queried under log_linear_df, the zero rates
\* falling from the first pillar to the second
C5_Witness ==
    /\ curve.ok
    /\ query.op = "discount_factor"
    /\ query.result.ok
    /\ NonNegativeForwards(curve.v)
    /\ curve.v.interpolation = "log_linear_df"
    /\ curve.v.pillar_dates = <<Date(2025, 1, 1), Date(2026, 1, 1)>>
    /\ curve.v.pillar_zero_rates = <<100000, 51000>>
    /\ query.date = Date(2026, 1, 1)

\* The arguments break a condition of the constructor
ViolatesConstructor(b) ==
    \/ Len(b.dates) # Len(b.values)
    \/ Len(b.dates) = 0
    \/ \E i \in 1..Len(b.dates) : DateLT(b.dates[i], b.valuation_date)
    \/ \E i, j \in 1..Len(b.dates) : i # j /\ b.dates[i] = b.dates[j]
    \/ \E i, j \in 1..Len(b.dates) :
          /\ DateLT(b.dates[i], b.dates[j])
          /\ YearFraction(b.valuation_date, b.dates[i], b.day_count)
               >= YearFraction(b.valuation_date, b.dates[j], b.day_count)

\* C6: as its constructor leaves it, a curve has at least one pillar, as many rates and times
\* as dates, no pillar before the valuation date, dates and year-fractions
\* strictly increasing; every rate stays with its input date, and every
\* permutation of the input pairs gives the same curve (so a permutation of
\* refused arguments is refused); and arguments that break a condition are
\* refused.
C6_Canonical ==
    query.op = "none" =>
    /\ curve.ok
       => LET c == curve.v
              n == Len(c.pillar_dates)
          IN  /\ n >= 1
              /\ Len(c.pillar_zero_rates) = n
              /\ Len(c.pillar_times) = n
              /\ \A i \in 1..n :
                    /\ DateLE(c.valuation_date, c.pillar_dates[i])
                    /\ c.pillar_times[i]
                         = YearFraction(c.valuation_date, c.pillar_dates[i],
                                        c.day_count)
              /\ \A i \in 1..(n - 1) :
                    /\ DateLT(c.pillar_dates[i], c.pillar_dates[i + 1])
                    /\ c.pillar_times[i] < c.pillar_times[i + 1]
    /\ (curve.ok /\ built.how = "YieldCurve")
       => /\ Len(built.dates) = Len(curve.v.pillar_dates)
          /\ \A j \in 1..Len(built.dates) :
                \E i \in 1..Len(curve.v.pillar_dates) :
                   /\ curve.v.pillar_dates[i] = built.dates[j]
                   /\ curve.v.pillar_zero_rates[i] = built.values[j]
    /\ (curve.ok /\ built.how = "YieldCurve")
       => \A p \in IndexPermutations(Len(built.dates)) :
             SameOutcome(YieldCurve(built.valuation_date,
                                    Permuted(built.dates, p),
                                    Permuted(built.values, p),
                                    built.day_count, built.interpolation,
                                    built.compounding),
                         curve)
    /\ (built.how = "YieldCurve" /\ ViolatesConstructor(built)) => ~curve.ok

\* three pillars given out of order, accepted
C6_Witness ==
    /\ curve.ok
    /\ built.how = "YieldCurve"
    /\ query.op = "none"
    /\ Len(built.dates) = 3
    /\ DateLT(built.dates[3], built.dates[1])
    /\ built.values[1] # built.values[3]

\* C10 as claimed: build_yield_curve_from_discount_factors raises whenever
\* a discount factor is <= 0 or > 1, and accepts the discount factors in
\* (0, 1] of pillars after the valuation date.
C10_Original_UnitInterval ==
    (built.how = "from_discount_factors" /\ Len(built.dates) = Len(built.values))
    => /\ (\E i \in 1..Len(built.values) :
              built.values[i] <= 0 \/ built.values[i] > One)
          => ~curve.ok
       /\ ( /\ ~ViolatesConstructor(built)
            /\ \A i \in 1..Len(built.values) :
                  /\ built.values[i] > 0
                  /\ built.values[i] <= One
                  /\ DateLT(built.valuation_date, built.dates[i]) )
          => curve.ok

---------------------------------------------------------------------------
(* Claims about build_yield_curve_from_swaps                               *)

\* The discount factor lies in (0, 1]
InUnitInterval(df) == df > 0 /\ df <= One

\* C7 as claimed: build_yield_curve_from_swaps returns a curve with one
\* pillar per swap and every bootstrapped discount factor in (0, 1], or it
\* raises; it raises whenever the discount factor bootstrapped for a swap,
\* the first included, is outside (0, 1], and whenever the loop ended early.
C7_Original_AllOrNothing ==
    built.how = "from_swaps"
    => /\ curve.ok
          => /\ boot.ok
             /\ Len(curve.v.pillar_dates) = Len(built.dates)
             /\ Len(boot.discount_factors) = Len(built.dates)
             /\ \A i \in 1..Len(boot.discount_factors) :
                   InUnitInterval(boot.discount_factors[i])
       /\ (\E i \in 1..Len(boot.discount_factors) :
              ~InUnitInterval(boot.discount_factors[i]))
          => ~curve.ok
       /\ ~boot.ok => ~curve.ok

\* The rate paired in the call with the maturity
PairedRate(b, maturity) ==
    b.values[CHOOSE j \in 1..Len(b.dates) : b.dates[j] = maturity]

\* The payment dates of the swap: the schedule without the valuation date
PaymentDates(b, maturity) ==
    LET full == GenerateSchedule(b.valuation_date, maturity, b.frequency)
    IN  SelectSeq(full, LAMBDA d : d # b.valuation_date)

\* The year-fraction of the period ending at payment date i
PeriodTau(b, payments, i) ==
    YearFraction(IF i = 1 THEN b.valuation_date ELSE payments[i - 1],
                 payments[i], b.day_count)

\* rate * tau_i * DF_temp(t_i) summed over the payment dates t_i before the
\* maturity, from payment date i on
RECURSIVE PvKnown(_, _, _, _, _)
PvKnown(b, temp, payments, rate, i) ==
    IF i >= Len(payments) THEN 0
    ELSE Mul(Mul(DiscountFactor(temp, payments[i]).v, rate),
             PeriodTau(b, payments, i))
         + PvKnown(b, temp, payments, rate, i + 1)

\* (1 - PV_known) / (1 + rate * tau_last) for the k-th swap by maturity,
\* DF_temp being the curve through the pillars of the swaps before it
ParSwapDf(b, bootstrapped, k) ==
    LET maturity == bootstrapped.pillar_dates[k]
        rate     == PairedRate(b, maturity)
        temp     == BuildFromDiscountFactors(
                        b.valuation_date,
                        SubSeq(bootstrapped.pillar_dates, 1, k - 1),
                        SubSeq(bootstrapped.discount_factors, 1, k - 1),
                        b.day_count, b.interpolation, b.compounding).v
        payments == PaymentDates(b, maturity)
        tau_last == PeriodTau(b, payments, Len(payments))
    IN  Ratio(One - PvKnown(b, temp, payments, rate, 1),
              One + Mul(rate, tau_last))

\* C8 as claimed: in a curve returned, for every swap after the first in
\* maturity order, the discount factor appended equals
\* (1 - PV_known) / (1 + rate * tau_last), PV_known summing
\* rate * tau_i * DF_temp(t_i) over the payment dates before the maturity and
\* tau_last being the year-fraction of the final period.
C8_Original_ParSwapFormula ==
    (built.how = "from_swaps" /\ curve.ok)
    => \A k \in 2..Len(boot.discount_factors) :
          Close(boot.discount_factors[k], ParSwapDf(built, boot, k), RoundTol)

\* C9: when build_yield_curve_from_swaps returns a curve, it returns the
\* same curve for every permutation of the (maturity, par rate) pairs; the
\* pillars come out in ascending maturity order, the first discount factor
\* computed from the rate paired with the earliest maturity.
C9_SwapOrderIrrelevant ==
    (built.how = "from_swaps" /\ query.op = "none" /\ curve.ok)
    => /\ \A p \in IndexPermutations(Len(built.dates)) :
             SameOutcome(BuildFromSwaps(built.valuation_date,
                                        Permuted(built.dates, p),
                                        Permuted(built.values, p),
                                        built.frequency, built.day_count,
                                        built.interpolation, built.compounding),
                         curve)
       /\ \A i \in 1..(Len(boot.pillar_dates) - 1) :
             DateLT(boot.pillar_dates[i], boot.pillar_dates[i + 1])
       /\ \A j \in 1..Len(built.dates) :
             \E i \in 1..Len(boot.pillar_dates) :
                boot.pillar_dates[i] = built.dates[j]
       /\ boot.discount_factors[1]
            = Ratio(One,
                    One + Mul(PairedRate(built, boot.pillar_dates[1]),
                              YearFraction(built.valuation_date,
                                           boot.pillar_dates[1],
                                           built.day_count)))

\* two swaps given later maturity first, at different rates, and a curve
\* returned
C9_Witness ==
    /\ built.how = "from_swaps"
    /\ query.op = "none"
    /\ curve.ok
    /\ Len(built.dates) = 2
    /\ DateLT(built.dates[2], built.dates[1])
    /\ built.values[1] # built.values[2]
    /\ boot.pillar_dates = <<built.dates[2], built.dates[1]>>

---------------------------------------------------------------------------
(* Claims about VolatilitySurface                                          *)

\* The state holds the outcome of a volatility_at_times call that returned
VolReturned == surface.result.ok /\ volq.op = "volatility_at_times" /\ volq.result.ok

\* t lies within the grid `times`
InRange(times, t) == times[1] <= t /\ t <= times[Len(times)]

\* The last grid node at or below an in-range t (1-based)
LowerNode(times, t) ==
    CHOOSE i \in 1..Len(times) :
        times[i] <= t /\ \A k \in 1..Len(times) : times[k] <= t => k <= i

\* C11 as stated: at an exact grid coordinate (expiry_times[i],
\* tenor_times[j]) volatility_at_times returns volatility_matrix[i][j], under
\* every interpolation and extrapolation mode and for every grid index.
C11_Original_ExactAtGrid ==
    VolReturned =>
        \A i \in 1..Len(surface.result.v.expiry_times) :
        \A j \in 1..Len(surface.result.v.tenor_times) :
            (/\ volq.expiry_time = surface.result.v.expiry_times[i]
             /\ volq.tenor_time = surface.result.v.tenor_times[j])
            => volq.result.v = surface.result.v.volatility_matrix[i][j]

\* The straight line through (x0, y0) and (x1, y1), at x
Line(x0, y0, x1, y1, x) == y0 + Mul(Ratio(x - x0, x1 - x0), y1 - y0)

\* The two grid nodes a linear surface with linear extrapolation works
\* between at t: the bracketing pair within the grid, the outermost pair
\* beyond it (1-based, the first of the two)
LineNode(times, t) ==
    IF t <= times[1] THEN 1
    ELSE IF t >= times[Len(times)] THEN Len(times) - 1
    ELSE LowerNode(times, t)

\* The value of one row at tenor_time on the line through the two columns
\* of LineNode
RowOnLine(tenor_times, row, tenor_time) ==
    IF Len(tenor_times) = 1 THEN row[1]
    ELSE LET j == LineNode(tenor_times, tenor_time)
         IN  Line(tenor_times[j], row[j], tenor_times[j + 1], row[j + 1],
                  tenor_time)

\* The value at (expiry_time, tenor_time) on the line through the two rows
\* of LineNode
SurfaceOnLines(self, expiry_time, tenor_time) ==
    IF Len(self.expiry_times) = 1
    THEN RowOnLine(self.tenor_times, self.volatility_matrix[1], tenor_time)
    ELSE LET i == LineNode(self.expiry_times, expiry_time)
         IN  Line(self.expiry_times[i],
                  RowOnLine(self.tenor_times, self.volatility_matrix[i], tenor_time),
                  self.expiry_times[i + 1],
                  RowOnLine(self.tenor_times, self.volatility_matrix[i + 1], tenor_time),
                  expiry_time)

\* t lies beyond a grid of at least two points
Beyond(times, t) == Len(times) >= 2 /\ ~InRange(times, t)

\* C12 as stated: with linear interpolation and linear extrapolation, a
\* query beyond the grid on an axis of at least two points, the expiry axis
\* or the tenor axis, below the first point or above the last, returns the
\* value on the straight line through the outermost two grid points of that
\* axis.
C12_Original_LinearPerAxis ==
    (/\ VolReturned
     /\ surface.result.v.interpolation = "linear"
     /\ surface.result.v.extrapolation = "linear"
     /\ \/ Beyond(surface.result.v.expiry_times, volq.expiry_time)
        \/ Beyond(surface.result.v.tenor_times, volq.tenor_time))
    => Close(volq.result.v,
             SurfaceOnLines(surface.result.v, volq.expiry_time, volq.tenor_time),
             RoundTol)

\* The state holds the outcome of an in-range query of a surface built with
\* interpolation 'flat'
FlatInRange ==
    /\ VolReturned
    /\ surface.result.v.interpolation = "flat"
    /\ InRange(surface.result.v.expiry_times, volq.expiry_time)
    /\ InRange(surface.result.v.tenor_times, volq.tenor_time)

\* C13 as stated: a surface built with interpolation 'flat' returns one and
\* the same value for every in-range query.
C13_Original_FlatConstant ==
    FlatInRange =>
        \A e \in QueryTimes(MaxExpiries), t \in QueryTimes(MaxTenors) :
            (InRange(surface.result.v.expiry_times, e)
                /\ InRange(surface.result.v.tenor_times, t))
            => VolatilityAtTimes(surface.result.v, e, t) = volq.result

\* The query is at the last of several expiries of a surface with linear
\* extrapolation
AtLastExpiryLinear ==
    /\ surface.result.v.extrapolation = "linear"
    /\ Len(surface.result.v.expiry_times) > 1
    /\ volq.expiry_time >= surface.result.v.expiry_times[Len(surface.result.v.expiry_times)]

\* C13: a surface built with interpolation 'flat' returns, for an in-range
\* query, the stored entry of the last grid node at or below the query on
\* each axis, blending nothing: the value is constant within a grid cell
\* (and over the whole range when the grid is a single point).  The last
\* expiry under linear extrapolation is left out.
C13_FlatIsPiecewiseConstant ==
    (FlatInRange /\ ~AtLastExpiryLinear)
    => volq.result.v =
          surface.result.v.volatility_matrix
              [LowerNode(surface.result.v.expiry_times, volq.expiry_time)]
              [LowerNode(surface.result.v.tenor_times, volq.tenor_time)]

\* A flat surface of two expiries and two tenors with four entries not all
\* equal, queried strictly inside its one cell, returned the first entry
C13_Witness ==
    /\ FlatInRange
    /\ surface.result.v.extrapolation = "linear"
    /\ surface.result.v.expiry_times = <<One, 2 * One>>
    /\ surface.result.v.tenor_times = <<One, 2 * One>>
    /\ surface.result.v.volatility_matrix = <<(<<200000, 260000>>), (<<260000, 260000>>)>>
    /\ volq.expiry_time = (3 * One) \div 2
    /\ volq.tenor_time = (3 * One) \div 2
    /\ volq.result.v = 200000

---------------------------------------------------------------------------
(* Claims about HullWhite1F                                                *)

\* The state holds the outcome of a bond_price call
BondPriceCalled == model.result.ok /\ call.op = "bond_price"

\* C14: bond_price(t, t, r) returns exactly 1.0 for every time t >= 0 and
\* every short rate r, for every model and curve.
C14_ParAtMaturity ==
    (BondPriceCalled /\ call.T = call.t /\ call.t >= 0)
    => call.result = Return(One)

\* bond_price(1.0, 1.0, -0.01) returned 1.0
C14_Witness ==
    /\ BondPriceCalled
    /\ call.t = One /\ call.T = One /\ call.r_t = -10000
    /\ call.result = Return(One)

\* The curve's zero rate at the date of time t
CurveRate(self, t) == ZeroRate(self.yield_curve, TimeToDate(self, t))

\* The curve's discount factor at the date of time t
CurveDf(self, t) == DiscountFactor(self.yield_curve, TimeToDate(self, t))

\* C15 as stated: with r_t the curve-implied rate at t, bond_price(t, T, r_t)
\* equals DF(T) / DF(t) for 0 <= t < T; in particular bond_price(0, T, r0)
\* equals the curve's discount factor at the date of T.
C15_Original_ReproducesCurve ==
    (/\ BondPriceCalled
     /\ 0 <= call.t /\ call.t < call.T
     /\ call.r_t = CurveRate(model.result.v, call.t).v)
    => /\ call.result.ok
       /\ Close(call.result.v,
                Ratio(CurveDf(model.result.v, call.T).v,
                      CurveDf(model.result.v, call.t).v),
                RoundTol)

\* C16: for fixed times 0 <= t < T and a fixed model (mean reversion > 0),
\* bond_price is strictly decreasing in the short rate: of two calls that
\* return, the one with the higher rate returns the lower price.
C16_DecreasingInRate ==
    (BondPriceCalled /\ 0 <= call.t /\ call.t < call.T /\ call.result.ok)
    => \A r2 \in ShortRates :
          r2 > call.r_t
          => /\ BondPrice(model.result.v, call.t, call.T, r2).ok
             /\ BondPrice(model.result.v, call.t, call.T, r2).v < call.result.v

\* bond_price(0, 1.0, 0.02) returned a price, a higher one than
\* bond_price(0, 1.0, 0.03) does
C16_Witness ==
    /\ BondPriceCalled
    /\ call.t = 0 /\ call.T = One /\ call.r_t = 20000
    /\ call.result.ok
    /\ BondPrice(model.result.v, 0, One, 30000).v < call.result.v

\* The state holds the outcome of a simulate_short_rate_path call
Simulated == model.result.ok /\ call.op = "simulate_short_rate_path"

\* The call repeats the first simulation with supplied shocks: the same
\* time grid and the same shocks
RepeatsFirst ==
    /\ Simulated
    /\ first.set
    /\ call.random_shocks.given
    /\ call.times = first.times
    /\ call.random_shocks = first.random_shocks

\* C17: two calls of simulate_short_rate_path on one model with the same
\* time grid and the same supplied shocks return the same path, whatever
\* calls, with or without shocks, were made in between.
C17_Deterministic == RepeatsFirst => call.result = first.result

\* A path over three time points was simulated a second time, as the third
\* call of the model, after a call that drew from np.random
C17_Witness ==
    /\ RepeatsFirst
    /\ ncalls = 3
    /\ rng # 0
    /\ Len(call.times) = 3
    /\ call.result.ok
    /\ Len(call.result.v) = 3

\* The grid passes the checks of simulate_short_rate_path: no negative
\* time, every time later than the one before
ValidGrid(times) ==
    /\ \A i \in 1..Len(times) : times[i] >= 0
    /\ \A i \in 2..Len(times) : times[i] > times[i - 1]

\* C18 as stated: for every time grid, the empty and the single-point one
\* included, and both schemes, simulate_short_rate_path raises whenever the
\* supplied shocks do not have exactly len(times) - 1 entries, and returns a
\* path when they do and the grid is valid.
C18_Original_ShockLength ==
    (Simulated /\ call.random_shocks.given)
    => /\ Len(call.random_shocks.v) # Len(call.times) - 1 => ~call.result.ok
       /\ (Len(call.random_shocks.v) = Len(call.times) - 1 /\ ValidGrid(call.times))
          => call.result.ok

\* C19: for both schemes simulate_short_rate_path raises, and returns no
\* path, whenever an entry of the time grid is negative or the grid is not
\* strictly increasing, wherever in the grid that is.
C19_InvalidGridRaises ==
    (Simulated /\ ~ValidGrid(call.times)) => ~call.result.ok

\* A grid whose last time is not later than the one before, simulated with
\* two shocks after a first step that went through, raised
C19_Witness ==
    /\ Simulated
    /\ call.times = <<0, One, One \div 2>>
    /\ call.random_shocks.given
    /\ Len(call.random_shocks.v) = 2
    /\ call.result = Raise("Times must be strictly increasing.")

\* C20: bond_price and discount_factor raise for every call with T < t, or
\* with t < 0 or T < 0, and discount_factor returns what bond_price does
\* for the same arguments.
C20_InvalidTimesRaise ==
    (model.result.ok /\ call.op \in {"bond_price", "discount_factor"})
    => /\ (call.T < call.t \/ call.t < 0 \/ call.T < 0) => ~call.result.ok
       /\ call.result = BondPrice(model.result.v, call.t, call.T, call.r_t)

\* discount_factor(-0.5, -0.5, r) raised
C20_Witness ==
    /\ model.result.ok
    /\ call.op = "discount_factor"
    /\ call.t = -(One \div 2) /\ call.T = -(One \div 2)
    /\ call.result = Raise("Times must be non-negative.")

\* One object per behaviour: a curve, a surface or a model is constructed
\* and then queried
OnlyCurve == ~surface.made /\ ~model.made

OnlySurface == built.how = "none" /\ ~model.made

OnlyModel == built.how = "none" /\ ~surface.made

\* Every query of the three classes, on an object of each
NextFrame ==
    \/ OnlyCurve /\ NewYieldCurve
    \/ OnlyCurve /\ CallDiscountFactor
    \/ OnlyCurve /\ CallZeroRate
    \/ OnlyCurve /\ CallForwardRate
    \/ OnlySurface /\ NewVolatilitySurface
    \/ OnlySurface /\ CallVolatility
    \/ OnlySurface /\ CallVolatilityAtTimes
    \/ OnlyModel /\ NewHullWhite1F
    \/ OnlyModel /\ CallSimulateShortRatePath
    \/ OnlyModel /\ CallBondPrice
    \/ OnlyModel /\ CallModelDiscountFactor

SpecFrame == Init /\ [][NextFrame]_vars

\* The most dates of a schedule the state keeps: the first MaxSchedule
MaxSchedule == 8

\* schedule.append(d), of which the state keeps the first MaxSchedule dates
ScheduleAppend(schedule, d) ==
    IF Len(schedule) < MaxSchedule THEN Append(schedule, d) ELSE schedule

\* start_date, end_date and frequency of the generate_schedule calls: an end
\* before, at and after the start; zero to six months or years, and a unit
\* that is neither
ScheduleStarts == {Date(2024, 1, 1), Date(2024, 1, 31)}

ScheduleEnds ==
    { Date(2023, 12, 31), Date(2024, 1, 1), Date(2024, 1, 31),
      Date(2024, 7, 1), Date(2024, 7, 31) }

ScheduleFrequencies ==
    {Frequency(n, unit) : n \in {0, 1, 3, 6}, unit \in {"M", "Y", "W"}}

\* generate_schedule(start_date, end_date, frequency, BusinessDayRule.NONE)
\* up to its loop
CallGenerateSchedule ==
    /\ sched.pc = "idle"
    /\ \E start_date \in ScheduleStarts, end_date \in ScheduleEnds :
       \E frequency \in ScheduleFrequencies :
          sched' = IF DateLT(end_date, start_date)
                   THEN [pc |-> "done", start_date |-> start_date,
                         end_date |-> end_date, frequency |-> frequency,
                         current_date |-> start_date, schedule |-> <<>>,
                         result |-> ScheduleRaise("end_date must be >= start_date")]
                   ELSE [pc |-> "loop", start_date |-> start_date,
                         end_date |-> end_date, frequency |-> frequency,
                         current_date |-> start_date,
                         schedule |-> <<start_date>>,
                         result |-> ScheduleRaise("")]
    /\ UNCHANGED curveVars
    /\ UNCHANGED volVars
    /\ UNCHANGED modelVars

\* One pass of "while current_date < end_date"
SchedulePass ==
    /\ sched.pc = "loop"
    /\ DateLT(sched.current_date, sched.end_date)
    /\ sched' =
          IF sched.frequency.unit \notin {"M", "Y"}
          THEN [sched EXCEPT !.pc = "done",
                             !.result = ScheduleRaise("Unsupported frequency unit")]
          ELSE LET nxt == IF sched.frequency.unit = "M"
                          THEN AddMonths(sched.current_date, sched.frequency.n)
                          ELSE AddYears(sched.current_date, sched.frequency.n)
               IN  [sched EXCEPT !.current_date = nxt,
                                 !.schedule =
                                     IF DateLE(nxt, sched.end_date)
                                     THEN ScheduleAppend(sched.schedule, nxt)
                                     ELSE sched.schedule]
    /\ UNCHANGED curveVars
    /\ UNCHANGED volVars
    /\ UNCHANGED modelVars

\* The loop left: the end date appended if it is not the last date, and
\* the schedule returned
ScheduleReturn ==
    /\ sched.pc = "loop"
    /\ ~DateLT(sched.current_date, sched.end_date)
    /\ sched' =
          [sched EXCEPT
             !.pc = "done",
             !.result =
                 Return(IF sched.schedule[Len(sched.schedule)] # sched.end_date
                        THEN ScheduleAppend(sched.schedule, sched.end_date)
                        ELSE sched.schedule)]
    /\ UNCHANGED curveVars
    /\ UNCHANGED volVars
    /\ UNCHANGED modelVars

NextSchedule ==
    \/ CallGenerateSchedule
    \/ SchedulePass
    \/ ScheduleReturn

\* A call under way keeps running: the interpreter executes the next pass
\* of the loop, or the statements after it, whenever there is one
SpecSchedule ==
    /\ Init
    /\ [][NextSchedule]_vars
    /\ WF_vars(SchedulePass)
    /\ WF_vars(ScheduleReturn)

---------------------------------------------------------------------------
(* Claims about the errors raised, the objects left alone and termination  *)

\* C21: discount_factor and zero_rate raise, and return no value, for every
\* target date before the valuation date; at the valuation date zero_rate
\* returns the first pillar's rate.
C21_BeforeValuationRaises ==
    (curve.ok /\ query.op \in {"discount_factor", "zero_rate"})
    => /\ DateLT(query.date, curve.v.valuation_date) => ~query.result.ok
       /\ (query.op = "zero_rate" /\ query.date = curve.v.valuation_date)
          => query.result = Return(curve.v.pillar_zero_rates[1])

\* zero_rate of a curve of three pillars with different rates, asked at the
\* valuation date, returned the first pillar's rate
C21_Witness ==
    /\ curve.ok
    /\ query.op = "zero_rate"
    /\ query.date = curve.v.valuation_date
    /\ Len(curve.v.pillar_zero_rates) = 3
    /\ curve.v.pillar_zero_rates[1] # curve.v.pillar_zero_rates[3]
    /\ query.result = Return(curve.v.pillar_zero_rates[1])

\* C22 as stated: forward_rate(start, end) raises for every end <= start,
\* and for valuation_date <= start < end returns (DF(start) / DF(end) - 1) / tau,
\* tau being the year-fraction from start to end under the curve's day
\* count.
C22_Original_ForwardRate ==
    (curve.ok /\ query.op = "forward_rate")
    => /\ DateLE(query.end_date, query.date) => ~query.result.ok
       /\ (DateLE(curve.v.valuation_date, query.date)
              /\ DateLT(query.date, query.end_date))
          => /\ query.result.ok
             /\ query.result.v =
                   Ratio(Ratio(DiscountFactor(curve.v, query.date).v,
                               DiscountFactor(curve.v, query.end_date).v) - One,
                         YearFraction(query.date, query.end_date, curve.v.day_count))

\* C23: volatility_at_times raises for every negative expiry time and
\* every negative tenor time; volatility raises for every expiry date before
\* the valuation date, and for every other input does what
\* volatility_at_times does at the year-fraction from the valuation date to
\* the expiry date.
C23_VolatilityErrors ==
    /\ (surface.result.ok /\ volq.op = "volatility_at_times"
           /\ (volq.expiry_time < 0 \/ volq.tenor_time < 0))
       => ~volq.result.ok
    /\ (surface.result.ok /\ volq.op = "volatility")
       => IF DateLT(volq.expiry_date, surface.result.v.valuation_date)
          THEN ~volq.result.ok
          ELSE volq.result =
                  VolatilityAtTimes(surface.result.v,
                                    YearFraction(surface.result.v.valuation_date,
                                                 volq.expiry_date,
                                                 surface.result.v.day_count),
                                    volq.tenor_time)

\* volatility at an expiry date a year and a half after the valuation date
\* returned a value between two expiries of the grid
C23_Witness ==
    /\ surface.result.ok
    /\ volq.op = "volatility"
    /\ volq.expiry_date = Date(2025, 7, 2)
    /\ surface.result.v.expiry_times = <<One, 2 * One>>
    /\ surface.result.v.interpolation = "linear"
    /\ volq.result.ok
    /\ volq.result.v # surface.result.v.volatility_matrix[1][1]

\* C24: constructing a HullWhite1F fails whenever the mean reversion or the
\* volatility is zero or negative, and succeeds when both are strictly
\* positive.
C24_PositiveParameters ==
    model.made
    => (model.result.ok <=> (model.mean_reversion > 0 /\ model.volatility > 0))

\* a model was refused for a volatility of exactly zero, its mean reversion
\* being positive
C24_Witness ==
    /\ model.made
    /\ model.mean_reversion > 0
    /\ model.volatility = 0
    /\ ~model.result.ok

\* C25: no query changes an object: once a curve, a surface or a model is
\* constructed, every call of discount_factor, zero_rate, forward_rate,
\* volatility, volatility_at_times, simulate_short_rate_path, bond_price and
\* the model's discount_factor, returning or raising, leaves the curve, the
\* surface and the model (its parameters, its curve, and nothing added to
\* it) as they were after construction.
C25_QueriesChangeNothing ==
    [][ /\ (built.how # "none" => curve' = curve)
        /\ (surface.made => surface' = surface)
        /\ (model.made => model' = model) ]_vars

\* a model has simulated a path after an earlier call on it
C25_Witness ==
    /\ model.result.ok
    /\ ncalls >= 2
    /\ call.op = "simulate_short_rate_path"
    /\ call.result.ok
    /\ Len(call.result.v) = MaxTimes

\* C26: every generate_schedule call with start_date <= end_date and a
\* frequency of the form <integer><M or Y> finishes, with a schedule or an
\* error.
C26_Original_Terminates ==
    (/\ sched.pc = "loop"
     /\ DateLE(sched.start_date, sched.end_date)
     /\ sched.frequency.unit \in {"M", "Y"})
    ~> (sched.pc = "done")

\* The calls whose frequency counts at least one month or year do finish
PositiveFrequencyTerminates ==
    (sched.pc = "loop" /\ sched.frequency.n > 0) ~> (sched.pc = "done")

\* C27: for every pair of times 0 <= t < T, however close, bond_price
\* returns a positive price and raises nothing.
C27_Original_AnyGap ==
    (BondPriceCalled /\ 0 <= call.t /\ call.t < call.T)
    => (call.result.ok /\ call.result.v > 0)

\* t_date, t1_date and t2_date of _theta(t): the ends of the two windows
\* over which it takes the curve's forward rate
ThetaDates(self, t) ==
    LET eps     == Max(100, Mul(t, 1))
        t_date  == TimeToDate(self, t)
        t1_date == Theta1Date(self, t, eps, t_date, TimeToDate(self, t + eps))
        t2_date == Theta2Date(self, t, eps, t1_date,
                              TimeToDate(self, t + 2 * eps))
    IN  <<t_date, t1_date, t2_date>>

\* theta(t) with the slope taken over the windows between `dates`: the
\* difference of the two forward rates divided by the length of the first
SlopeOverWindow(self, t, dates) ==
    LET f_t      == ForwardRate(self.yield_curve, dates[1], dates[2])
        f_t_plus == ForwardRate(self.yield_curve, dates[2], dates[3])
    IN  Return(Ratio(f_t_plus.v - f_t.v,
                     YearFraction(dates[1], dates[2], self.day_count))
               + Mul(self.mean_reversion, f_t.v)
               + VarianceTerm(self, t))

\* C28: the slope inside theta(t) is the difference of the curve's forward
\* rates over two adjacent windows of equal length, divided by the length
\* of one window, also when the windows were widened to whole days.  Stated
\* of theta at the first time of a simulated path of two or more points.
C28_Original_SlopeOverWindows ==
    (Simulated /\ call.result.ok /\ Len(call.times) >= 2)
    => LET self  == model.result.v
           dates == ThetaDates(self, call.times[1])
       IN  /\ YearFraction(dates[1], dates[2], self.day_count)
                = YearFraction(dates[2], dates[3], self.day_count)
           /\ Theta(self, call.times[1])
                = SlopeOverWindow(self, call.times[1], dates)

\* The path simulated over the first k points of the call's grid with the
\* first k - 1 of its shocks
PrefixPath(k) ==
    SimulateShortRatePath(model.result.v, SubSeq(call.times, 1, k),
                          Given(SubSeq(call.random_shocks.v, 1, k - 1)), <<>>)

\* C29: path stepping is causal: for both schemes and every valid grid with
\* supplied shocks the path has len(times) entries, its entry 0 is the
\* curve's zero rate at the first time, and simulating the first k points
\* with the first k - 1 shocks yields exactly its first k entries.
C29_Causal ==
    (Simulated /\ call.random_shocks.given /\ call.result.ok)
    => /\ Len(call.result.v) = Len(call.times)
       /\ Len(call.times) >= 1
          => call.result.v[1]
               = ZeroRate(model.result.v.yield_curve,
                          TimeToDate(model.result.v, call.times[1])).v
       /\ \A k \in 1..Len(call.times) :
             PrefixPath(k) = Return(SubSeq(call.result.v, 1, k))

\* a path of MaxTimes points was simulated with shocks that differ from
\* step to step
C29_Witness ==
    /\ Simulated
    /\ call.random_shocks.given
    /\ call.result.ok
    /\ Len(call.times) = MaxTimes
    /\ call.random_shocks.v[1] # call.random_shocks.v[2]
    /\ call.result.v[2] # call.result.v[3]

\* The nodes of `times` that bracket an in-range t: the two ends of its
\* cell, and for a t on a node the node and its neighbours
BracketNodes(times, t) ==
    LET i == LowerNode(times, t)
    IN  {k \in 1..Len(times) :
            i - (IF times[i] = t THEN 1 ELSE 0) <= k /\ k <= i + 1}

\* The grid values that bracket an in-range query
Bracketing(self, expiry_time, tenor_time) ==
    { self.volatility_matrix[a][b] :
        a \in BracketNodes(self.expiry_times, expiry_time),
        b \in BracketNodes(self.tenor_times, tenor_time) }

\* C30: every value volatility_at_times returns is non-negative, for every
\* surface, every mode combination and every query with non-negative times,
\* inside or outside the grid; for an in-range query it lies between the
\* least and the greatest of the bracketing grid values.
C30_Original_NonNegative ==
    VolReturned
    => /\ volq.result.v >= 0
       /\ (/\ InRange(surface.result.v.expiry_times, volq.expiry_time)
           /\ InRange(surface.result.v.tenor_times, volq.tenor_time))
          => \E lo, hi \in Bracketing(surface.result.v, volq.expiry_time,
                                      volq.tenor_time) :
                lo <= volq.result.v /\ volq.result.v <= hi

============================================================================
